---- MODULE Spec2Model ----
(***************************************************************************)
(* Guided document assembly engine of open-canvas (agents package).        *)
(*                                                                         *)
(* Two session paths exist in the source and both are modelled:            *)
(*   "catalog": maybeHandleDocSession / updateSessionFromMessage           *)
(*              (nodes/generate-artifact/docs-session.ts)                  *)
(*   "chat":    dynamicDeterminePath -> replyToGeneralInput /              *)
(*              generateArtifact, with processDocSessionMessages           *)
(*              (concept-note-state.ts, concept-note-action.ts,            *)
(*               nodes/generate-artifact/index.ts)                         *)
(* A conversation thread is wired to one of the two (variable path).       *)
(*                                                                         *)
(* Scales: field weights and priorities are rationals in the source; the   *)
(* model keeps them exact as integers (priority * PriorityScale,           *)
(* overall confidence * 1000, answer confidence * 100).                    *)
(* Strings are the literal texts; regex and substring tests are tabulated  *)
(* over the finite text universe below.                                    *)
(***************************************************************************)
EXTENDS Integers, Sequences, FiniteSets, TLC

VARIABLES
    path,          \* which handler set serves this thread: "catalog" | "chat"
    msgCount,      \* state._messages.length
    latestHuman,   \* the latest human message of state._messages (with its index)
    docsState,     \* state.docsState (DocSessionState or NoSession)
    artifact,      \* state.artifact (NoArtifact or the produced artifact)
    now,           \* Date.now(), one tick per handler run
    out,           \* what the handler run that ended last returned / did (observation; NoOut while a run is under way)
    readySaid,     \* some message processed against the session matched READY_PATTERNS
    handled,       \* the latest human message has been through the session's processing
    run,           \* the handler run in progress on the thread and the await it is suspended at
    callers,       \* loadDocumentCatalog: per caller, position and result
    cachedCatalog, \* catalog.ts module variable (NoCatalog = undefined, else the Map)
    reads,         \* number of times the catalog source was read and parsed
    scoreInput,    \* computeConfidence: the arguments of a call (definition, dossier, citations)
    scoreReport,   \* computeConfidence: the ConfidenceReport the call returned
    planInput,     \* question planner: the raw doc_types.yml entry handed to the loader
    planReport,    \* question planner: the loaded definition, its plan and the sorted plan
    mergeInput,    \* mergeUserInputs: the prior inputs, a list field and two lists for it
    mergeReport,   \* mergeUserInputs: the inputs after merging the lists in either order
    userInputs,          \* concept-note graph state: userInputs
    clarifyingQuestions, \* concept-note graph state: clarifyingQuestions
    conceptNoteStage,    \* concept-note graph state: conceptNoteStage
    intakeOut,           \* what the latest userIntakeNode run did (observation)
    intakeTurns,         \* number of userIntakeNode runs so far
    needsUserIntervention, \* concept-note graph state: needsUserIntervention
    nextNode,      \* concept-note graph: the node the thread runs next ("none" before the first run)
    graphMessage,  \* concept-note graph state: content of the latest human message of _messages
    graphOut,      \* concept-note graph: the node that ran last and the stage it found (observation)
    nodeRun        \* concept-note graph: the node run in progress, the await it is suspended at

vars == <<path, msgCount, latestHuman, docsState, artifact, now, out, readySaid, handled,
          run, callers, cachedCatalog, reads, scoreInput, scoreReport, planInput, planReport,
          mergeInput, mergeReport,
          userInputs, clarifyingQuestions, conceptNoteStage, intakeOut, intakeTurns,
          needsUserIntervention, nextNode, graphMessage, graphOut, nodeRun>>

threadVars == <<path, msgCount, latestHuman, docsState, artifact, now, out, readySaid, handled>>
sessionVars == <<threadVars, run>>
catalogVars == <<callers, cachedCatalog, reads>>
scoreVars == <<scoreInput, scoreReport>>
planVars == <<planInput, planReport>>
mergeVars == <<mergeInput, mergeReport>>
intakeVars == <<userInputs, clarifyingQuestions, conceptNoteStage, intakeOut, intakeTurns>>
graphVars == <<needsUserIntervention, nextNode, graphMessage, graphOut, nodeRun>>
fnVars == <<scoreVars, planVars, mergeVars, intakeVars, graphVars>>

-----------------------------------------------------------------------------
(* Bounds *)

MaxCatalogTurns == 2 \* handler runs on a catalog-path thread
MaxChatTurns == 3    \* graph runs on a chat-path thread
MaxExtract == 2      \* answers in one extractor response
MaxCitations == 1    \* citations attached by research
MaxCallers == 3      \* concurrent callers of loadDocumentCatalog
MaxScoreFields == 2  \* required fields of a definition handed to computeConfidence
MaxWeight == 2       \* largest field weight of such a definition
MaxPlanQuestions == 3 \* diagnostic questions of a definition handed to the planner
MaxListLen == 2      \* items of a list merged into the intake inputs
MaxIntakeTurns == 3  \* userIntakeNode runs of a concept-note thread
MaxGraphIntakeRuns == 5 \* userIntakeNode runs on a thread of the concept-note graph
MaxBrokenReads == 1 \* reads of doc_types.yml by the runs of a thread that find it broken

-----------------------------------------------------------------------------
(* Text universe *)

BlankText == "  "
AnswerText == "Solar mini-grid for 40 villages"
ReadyText == "generate the document"
PrdRequestText == "Help me draft a PRD"
AdrRequestText == "Write an ADR for solar forecasting"
JsonText == "{\"project\":\"Kenya solar\"}"
TechDesignRequestText == "Write a technical design"
ReadyJsonText == "generate the document {\"project\":\"Kenya solar\"}"

\* what users send on a chat-path thread
ChatContents ==
    {BlankText, AnswerText, ReadyText, PrdRequestText, AdrRequestText, JsonText, ReadyJsonText}

\* what users send on a catalog-path thread (that path reads the text only to
\* detect a document type; the extractor's reading of it is ExtractorResponses)
CatalogContents == {AdrRequestText, TechDesignRequestText, AnswerText, ReadyText}

\* list items of the intake inputs: a text, the same text padded with blanks, another text
PlainItem == "storage"
PaddedItem == " storage "
OtherItem == "metering"

\* String.prototype.trim over the universe
Trim(s) == IF s = BlankText THEN "" ELSE IF s = PaddedItem THEN PlainItem ELSE s

\* String.prototype.slice(-64): every text of the universe is shorter than 64
Suffix64(s) == s

Undefined == "<undefined>"

EmptyMap == [k \in {} |-> Undefined]

Put(m, k, v) == [x \in (DOMAIN m) \cup {k} |-> IF x = k THEN v ELSE m[x]]

Get(m, k) == IF k \in DOMAIN m THEN m[k] ELSE Undefined

RECURSIVE SeqSum(_)
SeqSum(s) == IF s = <<>> THEN 0 ELSE Head(s) + SeqSum(Tail(s))

SeqMap(F(_), s) == [i \in 1..Len(s) |-> F(s[i])]

Range(s) == {s[i] : i \in DOMAIN s}

-----------------------------------------------------------------------------
(* Catalog content (resources/doc_types.yml is data, loaded by catalog.ts) *)

WeightDefault == 1

\* normalizeRequirement: weight: input.weight ?? 1
normalizeRequirement(input, required) ==
    [ id |-> input.id,
      weight |-> IF "weight" \in DOMAIN input THEN input.weight ELSE WeightDefault,
      required |-> required ]

PrdDefinition ==
    [ id |-> "prd",
      name |-> "Product Requirements Document",
      template |-> "prd.hbs",
      required_fields |-> << normalizeRequirement([id |-> "overview"], TRUE),
                             normalizeRequirement([id |-> "users"], TRUE),
                             normalizeRequirement([id |-> "requirements"], TRUE),
                             normalizeRequirement([id |-> "metrics"], TRUE) >>,
      optional_fields |-> << >>,
      diagnostic_questions |->
          << [id |-> "q_scope", targets |-> <<"overview", "users">>],
             [id |-> "q_requirements", targets |-> <<"requirements">>],
             [id |-> "q_metrics", targets |-> <<"metrics">>],
             [id |-> "q_users", targets |-> <<"users">>] >>,
      research_prompts |-> << >> ]

AdrDefinition ==
    [ id |-> "adr",
      name |-> "Architecture Decision Record",
      template |-> "adr.hbs",
      required_fields |-> << normalizeRequirement([id |-> "context"], TRUE),
                             normalizeRequirement([id |-> "decision"], TRUE) >>,
      optional_fields |-> << normalizeRequirement([id |-> "alternatives"], FALSE) >>,
      diagnostic_questions |->
          << [id |-> "q_context", targets |-> <<"context">>],
             [id |-> "q_decision", targets |-> <<"decision", "alternatives">>] >>,
      research_prompts |-> << [query |-> "prior decisions", applies_to |-> <<"decision">>] >> ]

\* the Technical Design Document of the catalog; its first question is about
\* a required field, context or architecture
TechDesignDefinition ==
    [ id |-> "tech_design",
      name |-> "Technical Design Document",
      template |-> "tech_design.hbs",
      required_fields |-> << normalizeRequirement([id |-> "context"], TRUE),
                             normalizeRequirement([id |-> "architecture"], TRUE) >>,
      optional_fields |-> << >>,
      diagnostic_questions |->
          << [id |-> "q_context", targets |-> <<"context">>],
             [id |-> "q_architecture", targets |-> <<"architecture">>] >>,
      research_prompts |-> << >> ]

\* the catalog holds the PRD, the Technical Design Document and the ADR
Catalog ==
    [k \in {"prd", "tech_design", "adr"} |->
        IF k = "prd" THEN PrdDefinition
        ELSE IF k = "tech_design" THEN TechDesignDefinition
        ELSE AdrDefinition]

\* a definition whose question q_budget targets "budget", a field it does not declare
MemoDefinition ==
    [ id |-> "memo",
      name |-> "Decision Memo",
      template |-> "memo.hbs",
      required_fields |-> << normalizeRequirement([id |-> "summary"], TRUE) >>,
      optional_fields |-> << >>,
      diagnostic_questions |->
          << [id |-> "q_summary", targets |-> <<"summary">>],
             [id |-> "q_budget", targets |-> <<"budget">>] >>,
      research_prompts |-> << >> ]

\* what a read of doc_types.yml may parse to: the catalog of the sessions, a
\* catalog with an undeclared question target, a document without doc_types
CatalogSources ==
    { [isArray |-> TRUE, doc_types |-> <<PrdDefinition, AdrDefinition>>],
      [isArray |-> TRUE, doc_types |-> <<AdrDefinition, MemoDefinition>>],
      [isArray |-> FALSE, doc_types |-> <<>>] }

NoCatalog == [loaded |-> FALSE]

FieldIds(definition) ==
    {definition.required_fields[i].id : i \in DOMAIN definition.required_fields}
      \cup {definition.optional_fields[i].id : i \in DOMAIN definition.optional_fields}

-----------------------------------------------------------------------------
(* Question planner: catalog.ts materializeQuestionPlan, session.ts sort *)

PriorityScale == 24  \* priorities are kept as priority * 24 (exact for index+1 in {1,2,3,4,6,8})

\* coverageWeights.get(fieldId) ?? 0.5, times PriorityScale; optional entries overwrite required
coverageWeight(definition, fieldId) ==
    LET opt == {i \in DOMAIN definition.optional_fields : definition.optional_fields[i].id = fieldId}
        req == {i \in DOMAIN definition.required_fields : definition.required_fields[i].id = fieldId}
    IN  IF opt # {} THEN definition.optional_fields[CHOOSE i \in opt : \A j \in opt : j <= i].weight * PriorityScale
        ELSE IF req # {} THEN definition.required_fields[CHOOSE i \in req : \A j \in req : j <= i].weight * PriorityScale
        ELSE PriorityScale \div 2

\* variant: the priority is the weight sum alone, without the 1/(index + 1) term
materializeQuestionPlan_noTieBreak(definition) ==
    [i \in DOMAIN definition.diagnostic_questions |->
        LET question == definition.diagnostic_questions[i]
            weights == [t \in DOMAIN question.targets |-> coverageWeight(definition, question.targets[t])]
        IN  [ id |-> question.id,
              targets |-> question.targets,
              priority |-> SeqSum(weights) ] ]

materializeQuestionPlan(definition) ==
    [i \in DOMAIN definition.diagnostic_questions |->
        LET question == definition.diagnostic_questions[i]
            weights == [t \in DOMAIN question.targets |-> coverageWeight(definition, question.targets[t])]
        IN  [ id |-> question.id,
              targets |-> question.targets,
              priority |-> SeqSum(weights) + (PriorityScale \div i) ] ]

\* one step of a stable descending sort: q goes after every item with priority >= its own
RECURSIVE InsertByPriority(_, _)
InsertByPriority(q, sorted) ==
    IF sorted = <<>> THEN <<q>>
    ELSE IF Head(sorted).priority >= q.priority
         THEN <<Head(sorted)>> \o InsertByPriority(q, Tail(sorted))
         ELSE <<q>> \o sorted

RECURSIVE SortInto(_, _)
SortInto(questions, sorted) ==
    IF questions = <<>> THEN sorted
    ELSE SortInto(Tail(questions), InsertByPriority(Head(questions), sorted))

\* variant: the questions stay in the order of the plan
sortQuestionsByPriority_asPlanned(questions) == questions

\* [...questions].sort((a, b) => b.priority - a.priority)  (Array.prototype.sort is stable)
sortQuestionsByPriority(questions) == SortInto(questions, <<>>)

-----------------------------------------------------------------------------
(* Confidence scorer: docs/scoring.ts computeConfidence *)

CompletenessWeight == 500   \* 0.5 * 1000
EvidenceWeight == 300       \* 0.3 * 1000
ClarityWeight == 200        \* 0.2 * 1000
ReadyThreshold == 750       \* 0.75 * 1000

PlaceholderTexts == {"TBD"}

\* PLACEHOLDER_REGEX.test(value)
IsPlaceholder(value) == value \in PlaceholderTexts

\* variant: the test lacks .trim(), a blank string counts as a value
NonBlank_noTrim(dossier, id) == id \in DOMAIN dossier /\ dossier[id] # ""

\* value && value.trim().length > 0
NonBlank(dossier, id) == id \in DOMAIN dossier /\ Trim(dossier[id]) # ""

\* truthiness of dossier[field.id]
Truthy(dossier, id) == id \in DOMAIN dossier /\ dossier[id] # ""

\* round-half-up of n/d, d > 0
RoundDiv(n, d) == (2 * n + d) \div (2 * d)

computeConfidence(definition, dossier, citations) ==
    LET required == definition.required_fields
        optional == definition.optional_fields
        all == required \o optional
        totalWeight == SeqSum([i \in DOMAIN required |-> required[i].weight])
        coveredWeight == SeqSum([i \in DOMAIN required |->
                            IF NonBlank(dossier, required[i].id) THEN required[i].weight ELSE 0])
        missingRequired == SelectSeq(required, LAMBDA field : ~NonBlank(dossier, field.id))
        cited == UNION {citations[c].appliesTo : c \in DOMAIN citations}
        evidenceDenominator == Cardinality({i \in DOMAIN all : Truthy(dossier, all[i].id)})
        evidenceCount == Cardinality({i \in DOMAIN all : Truthy(dossier, all[i].id) /\ all[i].id \in cited})
        keys == Cardinality(DOMAIN dossier)
        clarityDenominator == IF keys = 0 THEN 1 ELSE keys
        unclearCount == Cardinality({k \in DOMAIN dossier : dossier[k] = "" \/ IsPlaceholder(dossier[k])})
        tw == IF totalWeight = 0 THEN 1 ELSE totalWeight
        ed == IF evidenceDenominator = 0 THEN 1 ELSE evidenceDenominator
        num == CompletenessWeight * (IF totalWeight = 0 THEN 0 ELSE coveredWeight) * ed * clarityDenominator
               + EvidenceWeight * evidenceCount * tw * clarityDenominator
               + ClarityWeight * (clarityDenominator - unclearCount) * tw * ed
    IN  [ coveredWeight |-> coveredWeight,
          totalWeight |-> totalWeight,
          completeness |-> [ num |-> IF totalWeight = 0 THEN 0 ELSE coveredWeight,
                             den |-> IF totalWeight = 0 THEN 1 ELSE totalWeight ],
          overall |-> RoundDiv(num, tw * ed * clarityDenominator),
          missingRequired |-> missingRequired ]

-----------------------------------------------------------------------------
(* Session state: docs/types.ts DocSessionState *)

NoSession == [defined |-> FALSE]

NoArtifact == [produced |-> FALSE]

Definition(session) == Catalog[session.docType]

DraftTitle(definition) == definition.name \o " Draft"

\* docs-session.ts createSession (after loadDocumentCatalog / getDocumentDefinition)
createSession(docType) ==
    LET definition == Catalog[docType]
    IN  [ defined |-> TRUE,
          active |-> TRUE,
          docType |-> definition.id,
          answers |-> EmptyMap,
          dossier |-> EmptyMap,
          pendingQuestions |-> sortQuestionsByPriority(materializeQuestionPlan(definition)),
          citations |-> <<>>,
          confidence |-> 0,
          readyToGenerate |-> FALSE,
          title |-> DraftTitle(definition),
          processedMessageIds |-> <<>>,
          lastAskedQuestionId |-> Undefined ]

\* docs/session.ts createDocSession
createDocSession(definition) ==
    [ defined |-> TRUE,
      active |-> TRUE,
      docType |-> definition.id,
      answers |-> EmptyMap,
      dossier |-> EmptyMap,
      pendingQuestions |-> sortQuestionsByPriority(materializeQuestionPlan(definition)),
      citations |-> <<>>,
      confidence |-> 0,
      readyToGenerate |-> FALSE,
      title |-> DraftTitle(definition),
      processedMessageIds |-> <<>>,
      lastAskedQuestionId |-> Undefined ]

\* session.ts calculateCoverageConfidence: Math.round(answered / required * 100)
calculateCoverageConfidence(definition, answers) ==
    LET required == definition.required_fields
        answeredCount == Cardinality({i \in DOMAIN required :
                            /\ required[i].id \in DOMAIN answers
                            /\ Trim(answers[required[i].id].value) # ""})
    IN  IF Len(required) = 0 THEN 0
        ELSE RoundDiv(answeredCount * 100, Len(required))

\* session.ts findNextQuestion
findNextQuestion(session) ==
    IF session.pendingQuestions = <<>> THEN Undefined ELSE session.pendingQuestions[1].id

-----------------------------------------------------------------------------
(* Messages *)

NoMessage == [type |-> "none", id |-> Undefined, content |-> "", index |-> -1]

\* a human message appended to state._messages at position index (0-based);
\* explicit ids are unique per message, as the transport assigns them
HumanMessage(hasId, content, index) ==
    [ type |-> "human",
      id |-> IF hasId THEN "msg-" \o ToString(index) ELSE Undefined,
      content |-> content,
      index |-> index ]

-----------------------------------------------------------------------------
(* Catalog path: nodes/generate-artifact/docs-session.ts *)

\* detectDocTypeFromMessage over the text universe: DOC_KEYWORDS phrases first
\* ("prd" is a phrase of type prd), then any text containing "document" is a prd
detectDocTypeFromMessage(content) ==
    IF content = TechDesignRequestText THEN "tech_design"
    ELSE IF content = PrdRequestText THEN "prd"
    ELSE IF content = AdrRequestText THEN "adr"
    ELSE IF content \in {ReadyText, ReadyJsonText} THEN "prd"
    ELSE Undefined

\* message.id ?? `${message.getType()}-${fallbackIndex}`
getMessageId(message, fallbackIndex) ==
    IF message.id # Undefined THEN message.id
    ELSE message.type \o "-" \o ToString(fallbackIndex)

ExtractFailure == [ok |-> FALSE]

ExtractorTitles == {Undefined}   \* the extractor proposes no title

ExtractorConfidence == 100   \* 1.0 * 100

\* what the extractor may return for a message: a failure, or at most
\* MaxExtract answers (a text, or a blank)
ExtractorResponses(definition) ==
    LET ids == FieldIds(definition)
        all == definition.required_fields \o definition.optional_fields
        subsets == {S \in SUBSET ids : Cardinality(S) <= MaxExtract}
        lists == UNION { { SeqMap(LAMBDA field : [fieldId |-> field.id, value |-> v[field.id],
                                                  confidence |-> ExtractorConfidence],
                                  SelectSeq(all, LAMBDA field : field.id \in S))
                           : v \in [S -> {AnswerText, BlankText}] } : S \in subsets }
    IN  {ExtractFailure}
          \cup { [ok |-> TRUE, answers |-> a, title |-> t] : a \in lists, t \in ExtractorTitles }

\* variant: the loop lacks `if (!answer.value?.trim()) continue`
RECURSIVE applyExtractedAnswers_noSkip(_, _, _, _)
applyExtractedAnswers_noSkip(list, session, acc, timestamp) ==
    IF list = <<>> THEN acc
    ELSE LET answer == Head(list)
             value == Trim(answer.value)
             previous == IF answer.fieldId \in DOMAIN session.answers
                         THEN session.answers[answer.fieldId].timestamps ELSE <<>>
             record == [ fieldId |-> answer.fieldId,
                         value |-> value,
                         source |-> "user",
                         confidence |-> answer.confidence,
                         timestamps |-> Append(previous, timestamp) ]
         IN  applyExtractedAnswers_noSkip(Tail(list), session,
                     [ answers |-> Put(acc.answers, answer.fieldId, record),
                       dossier |-> Put(acc.dossier, answer.fieldId, value) ],
                     timestamp)

\* the loop of updateSessionFromMessage over response.answers (docs-session.ts:188-202);
\* timestamps are read from the session as it was before the loop
RECURSIVE applyExtractedAnswers(_, _, _, _)
applyExtractedAnswers(list, session, acc, timestamp) ==
    IF list = <<>> THEN acc
    ELSE LET answer == Head(list)
             value == Trim(answer.value)
             previous == IF answer.fieldId \in DOMAIN session.answers
                         THEN session.answers[answer.fieldId].timestamps ELSE <<>>
             record == [ fieldId |-> answer.fieldId,
                         value |-> value,
                         source |-> "user",
                         confidence |-> answer.confidence,
                         timestamps |-> Append(previous, timestamp) ]
         IN  IF value = ""
             THEN applyExtractedAnswers(Tail(list), session, acc, timestamp)
             ELSE applyExtractedAnswers(Tail(list), session,
                     [ answers |-> Put(acc.answers, answer.fieldId, record),
                       dossier |-> Put(acc.dossier, answer.fieldId, value) ],
                     timestamp)

\* a question stays pending unless every target has a non-blank dossier value
stillPending(question, dossier) ==
    ~(\A t \in DOMAIN question.targets : NonBlank(dossier, question.targets[t]))

\* variant: a failed extractor call ends the processing of the message
updateSessionFromMessage_abortOnFailure(session, message, messageIndex, response, timestamp) ==
    LET messageId == getMessageId(message, messageIndex)
        merged == IF response.ok
                  THEN applyExtractedAnswers(response.answers, session,
                          [answers |-> session.answers, dossier |-> session.dossier], timestamp)
                  ELSE [answers |-> session.answers, dossier |-> session.dossier]
        title == IF response.ok /\ response.title # Undefined THEN response.title ELSE session.title
        filteredQuestions == SelectSeq(session.pendingQuestions,
                                       LAMBDA question : stillPending(question, merged.dossier))
    IN  IF messageId \in Range(session.processedMessageIds) \/ ~response.ok
        THEN session
        ELSE [ session EXCEPT
                 !.answers = merged.answers,
                 !.dossier = merged.dossier,
                 !.pendingQuestions = sortQuestionsByPriority(filteredQuestions),
                 !.processedMessageIds = Append(session.processedMessageIds, messageId),
                 !.title = title,
                 !.lastAskedQuestionId = Undefined ]

updateSessionFromMessage(session, message, messageIndex, response, timestamp) ==
    LET messageId == getMessageId(message, messageIndex)
        merged == IF response.ok
                  THEN applyExtractedAnswers(response.answers, session,
                          [answers |-> session.answers, dossier |-> session.dossier], timestamp)
                  ELSE [answers |-> session.answers, dossier |-> session.dossier]
        title == IF response.ok /\ response.title # Undefined THEN response.title ELSE session.title
        filteredQuestions == SelectSeq(session.pendingQuestions,
                                       LAMBDA question : stillPending(question, merged.dossier))
    IN  IF messageId \in Range(session.processedMessageIds)
        THEN session
        ELSE [ session EXCEPT
                 !.answers = merged.answers,
                 !.dossier = merged.dossier,
                 !.pendingQuestions = sortQuestionsByPriority(filteredQuestions),
                 !.processedMessageIds = Append(session.processedMessageIds, messageId),
                 !.title = title,
                 !.lastAskedQuestionId = Undefined ]

\* formatQuestionMessage: the AI message asking question, with the missing-required reminder
formatQuestionMessage(session, question) ==
    LET report == computeConfidence(Definition(session), session.dossier, session.citations)
    IN  [ kind |-> "question",
          questionId |-> question.id,
          missing |-> SeqMap(LAMBDA field : field.id, report.missingRequired) ]

\* createArtifactMarkdown(buildArtifactFromTemplate(...), session.title)
createArtifactMarkdown(session) ==
    [produced |-> TRUE, title |-> session.title]

\* maybeHandleDocSession(state, config): the value it returns, or how it ends.
\* response is the extractor's result, renderOk whether renderDocumentTemplate succeeds.
maybeHandleDocSession(state, response, renderOk, timestamp) ==
    LET latest == state.latestHuman
        latestContent == IF latest.type = "human" THEN latest.content ELSE Undefined
        docTypeFromMessage == IF latestContent = Undefined THEN Undefined
                              ELSE detectDocTypeFromMessage(latestContent)
        hasSession == state.docsState.defined
        unchanged == [docsState |-> state.docsState, messages |-> <<>>, artifact |-> state.artifact]
    IN  IF ~hasSession /\ docTypeFromMessage = Undefined
        THEN [kind |-> "undefined"] @@ unchanged
        ELSE IF ~hasSession /\ docTypeFromMessage \notin DOMAIN Catalog
        THEN [kind |-> "unknownDocType"] @@ unchanged
        ELSE
          LET session0 == IF hasSession THEN state.docsState ELSE createSession(docTypeFromMessage)
              session1 == IF latest.type = "human"
                          THEN updateSessionFromMessage(session0, latest, latest.index, response, timestamp)
                          ELSE session0
              confidenceReport == computeConfidence(Definition(session1), session1.dossier, session1.citations)
              ready == confidenceReport.overall >= ReadyThreshold
                         /\ confidenceReport.missingRequired = <<>>
              session == [session1 EXCEPT !.confidence = confidenceReport.overall,
                                          !.readyToGenerate = ready]
          IN  IF ~session.readyToGenerate
              THEN IF session.pendingQuestions = <<>>
                   THEN [kind |-> "silent", docsState |-> session, messages |-> <<>>,
                         artifact |-> state.artifact]
                   ELSE IF session.lastAskedQuestionId = session.pendingQuestions[1].id
                   THEN [kind |-> "silent", docsState |-> session, messages |-> <<>>,
                         artifact |-> state.artifact]
                   ELSE [kind |-> "question",
                         docsState |-> [session EXCEPT !.lastAskedQuestionId = session.pendingQuestions[1].id],
                         messages |-> <<formatQuestionMessage(session, session.pendingQuestions[1])>>,
                         artifact |-> state.artifact]
              ELSE IF ~renderOk
                   THEN [kind |-> "renderError"] @@ unchanged
                   ELSE [kind |-> "artifact", docsState |-> NoSession, messages |-> <<>>,
                         artifact |-> createArtifactMarkdown(session)]

-----------------------------------------------------------------------------
(* Chat path: reply-to-general-input (in concept-note-action.ts), router, generateArtifact *)

CoverageThreshold == 75     \* confidence >= 75 (percent)
UserAnswerConfidence == 70  \* confidence: 0.7, times 100

\* READY_PATTERNS over the text universe:
\* /generate (?:the )?(?:doc|document|draft)/i matches ReadyText and
\* ReadyJsonText, nothing else matches
matchesReadyPattern(text) == text \in {ReadyText, ReadyJsonText}

detectReadyIntent(text) ==
    IF Trim(text) = "" THEN FALSE ELSE matchesReadyPattern(text)

\* variant: the content fallback is missing, an id-less message has no identity
getDeterministicMessageId_noFallback(message) ==
    IF message.id # Undefined /\ Trim(message.id) # "" THEN message.id
    ELSE Undefined

\* getDeterministicMessageId: explicit id, else "content:" + last 64 chars, else undefined
\* (kwargs.id and additional_kwargs.id are absent on the messages of the model)
getDeterministicMessageId(message) ==
    IF message.id # Undefined /\ Trim(message.id) # "" THEN message.id
    ELSE IF Trim(message.content) # "" THEN "content:" \o Suffix64(Trim(message.content))
    ELSE Undefined

NoDetails == [project |-> Undefined, user |-> Undefined]

\* extractProjectUserDetails over the text universe: JsonText parses to an
\* object with a "project" key, and ReadyJsonText holds that object as its
\* one JSON segment (extractJsonSegments)
extractProjectUserDetails(raw) ==
    IF Trim(raw) \in {JsonText, ReadyJsonText} THEN [project |-> "Kenya solar", user |-> Undefined]
    ELSE NoDetails

\* toPrettyString of a string value: value.trim() || value
toPrettyString(value) == IF Trim(value) # "" THEN Trim(value) ELSE value

mergeProjectUserDetails(session, details) ==
    LET projectUnchanged == details.project = Undefined
                              \/ toPrettyString(details.project) = Get(session.dossier, "project_details")
        userUnchanged == details.user = Undefined
                              \/ toPrettyString(details.user) = Get(session.dossier, "user_details")
        withProject == IF details.project # Undefined
                       THEN Put(session.dossier, "project_details", toPrettyString(details.project))
                       ELSE session.dossier
        withUser == IF details.user # Undefined
                    THEN Put(withProject, "user_details", toPrettyString(details.user))
                    ELSE withProject
    IN  IF details = NoDetails THEN session
        ELSE IF projectUnchanged /\ userUnchanged THEN session
        ELSE [session EXCEPT !.dossier = withUser]

\* targetQuestion.targets.forEach(...) of processDocSessionMessages (lines 381-395)
RECURSIVE recordTargets(_, _, _, _)
recordTargets(targets, answers, text, timestamp) ==
    IF targets = <<>> THEN answers
    ELSE LET targetId == Head(targets)
             timestamps == IF targetId \in DOMAIN answers THEN answers[targetId].timestamps ELSE <<>>
             record == [ fieldId |-> targetId,
                         value |-> text,
                         source |-> "user",
                         confidence |-> UserAnswerConfidence,
                         timestamps |-> Append(timestamps, timestamp) ]
         IN  IF targetId = ""
             THEN recordTargets(Tail(targets), answers, text, timestamp)
             ELSE recordTargets(Tail(targets), Put(answers, targetId, record), text, timestamp)

\* variant: the flag is assigned from the intent instead of only being raised
applyReadyIntent_assign(session, readyIntent) ==
    [session EXCEPT !.readyToGenerate = readyIntent]

\* the readiness override at the end of processDocSessionMessages (lines 423-428)
applyReadyIntent(session, readyIntent) ==
    IF ~session.readyToGenerate /\ readyIntent
    THEN [session EXCEPT !.readyToGenerate = TRUE]
    ELSE session

\* variant: the remaining questions are filtered from a freshly derived plan
applyAnswerToAskedQuestion_replan(session, trimmedContent, readyIntent, timestamp) ==
    LET hits == {i \in DOMAIN session.pendingQuestions :
                    session.pendingQuestions[i].id = session.lastAskedQuestionId}
    IN  IF session.lastAskedQuestionId = Undefined THEN session
        ELSE IF hits # {} /\ ~readyIntent
        THEN LET targetQuestion == session.pendingQuestions[CHOOSE i \in hits : \A j \in hits : i <= j]
                 updatedAnswers == recordTargets(targetQuestion.targets, session.answers,
                                                 trimmedContent, timestamp)
                 remainingQuestions == SelectSeq(sortQuestionsByPriority(materializeQuestionPlan(Definition(session))),
                                                 LAMBDA question : question.id # targetQuestion.id)
                 confidence == calculateCoverageConfidence(Definition(session), updatedAnswers)
             IN  [ session EXCEPT
                     !.answers = updatedAnswers,
                     !.pendingQuestions = remainingQuestions,
                     !.confidence = confidence,
                     !.readyToGenerate = (confidence >= CoverageThreshold \/ remainingQuestions = <<>>),
                     !.lastAskedQuestionId = Undefined ]
        ELSE [session EXCEPT !.lastAskedQuestionId = Undefined]

\* the lastAskedQuestionId block of processDocSessionMessages (lines 372-421)
applyAnswerToAskedQuestion(session, trimmedContent, readyIntent, timestamp) ==
    LET hits == {i \in DOMAIN session.pendingQuestions :
                    session.pendingQuestions[i].id = session.lastAskedQuestionId}
    IN  IF session.lastAskedQuestionId = Undefined THEN session
        ELSE IF hits # {} /\ ~readyIntent
        THEN LET targetQuestion == session.pendingQuestions[CHOOSE i \in hits : \A j \in hits : i <= j]
                 updatedAnswers == recordTargets(targetQuestion.targets, session.answers,
                                                 trimmedContent, timestamp)
                 remainingQuestions == SelectSeq(session.pendingQuestions,
                                                 LAMBDA question : question.id # targetQuestion.id)
                 confidence == calculateCoverageConfidence(Definition(session), updatedAnswers)
             IN  [ session EXCEPT
                     !.answers = updatedAnswers,
                     !.pendingQuestions = remainingQuestions,
                     !.confidence = confidence,
                     !.readyToGenerate = (confidence >= CoverageThreshold \/ remainingQuestions = <<>>),
                     !.lastAskedQuestionId = Undefined ]
        ELSE [session EXCEPT !.lastAskedQuestionId = Undefined]

processDocSessionMessages(session, latest, timestamp) ==
    LET messageId == getDeterministicMessageId(latest)
        updated0 == IF messageId # Undefined
                    THEN [session EXCEPT !.processedMessageIds = Append(session.processedMessageIds, messageId)]
                    ELSE session
        trimmedContent == Trim(latest.content)
        updated1 == mergeProjectUserDetails(updated0, extractProjectUserDetails(trimmedContent))
        readyIntent == detectReadyIntent(trimmedContent)
        updated2 == applyAnswerToAskedQuestion(updated1, trimmedContent, readyIntent, timestamp)
    IN  IF latest.type # "human" THEN session
        ELSE IF messageId # Undefined /\ messageId \in Range(session.processedMessageIds) THEN session
        ELSE IF trimmedContent = "" THEN updated0
        ELSE applyReadyIntent(updated2, readyIntent)

\* variant: the next question is looked up also for a ready session
replyToGeneralInput_askWhenReady(state, hasAssistantId, replyOk, timestamp) ==
    IF ~hasAssistantId \/ ~replyOk
    THEN [kind |-> "error", docsState |-> state.docsState, messages |-> <<>>, artifact |-> state.artifact]
    ELSE IF state.docsState.defined /\ state.docsState.active
    THEN LET updatedSession == processDocSessionMessages(state.docsState, state.latestHuman, timestamp)
             nextQuestion == findNextQuestion(updatedSession)
         IN  [ kind |-> "reply",
               docsState |-> [updatedSession EXCEPT !.lastAskedQuestionId = nextQuestion],
               messages |-> << [kind |-> "reply", questionId |-> nextQuestion, missing |-> <<>>] >>,
               artifact |-> state.artifact ]
    ELSE [ kind |-> "reply",
           docsState |-> state.docsState,
           messages |-> << [kind |-> "reply", questionId |-> Undefined, missing |-> <<>>] >>,
           artifact |-> state.artifact ]

\* replyToGeneralInput(state, config): the update it returns.  It throws, and
\* returns no update, when config.configurable has no assistant_id (lines
\* 494-497, before the session is looked at) and when smallModel.invoke throws
\* (lines 534, 573, after the session update was computed, which is then dropped)
replyToGeneralInput(state, hasAssistantId, replyOk, timestamp) ==
    IF ~hasAssistantId \/ ~replyOk
    THEN [kind |-> "error", docsState |-> state.docsState, messages |-> <<>>, artifact |-> state.artifact]
    ELSE IF state.docsState.defined /\ state.docsState.active
    THEN LET updatedSession == processDocSessionMessages(state.docsState, state.latestHuman, timestamp)
             nextQuestion == IF updatedSession.readyToGenerate THEN Undefined
                             ELSE findNextQuestion(updatedSession)
             sessionForReturn == IF nextQuestion = updatedSession.lastAskedQuestionId
                                 THEN updatedSession
                                 ELSE [updatedSession EXCEPT !.lastAskedQuestionId = nextQuestion]
         IN  [ kind |-> "reply",
               docsState |-> sessionForReturn,
               messages |-> << [kind |-> "reply", questionId |-> nextQuestion, missing |-> <<>>] >>,
               artifact |-> state.artifact ]
    ELSE [ kind |-> "reply",
           docsState |-> state.docsState,
           messages |-> << [kind |-> "reply", questionId |-> Undefined, missing |-> <<>>] >>,
           artifact |-> state.artifact ]

\* generate-artifact/index.ts generateArtifact: returns { artifact } only
generateArtifact(state, llmOk) ==
    IF ~llmOk
    THEN [kind |-> "error", docsState |-> state.docsState, messages |-> <<>>, artifact |-> state.artifact]
    ELSE [ kind |-> "artifact",
           docsState |-> state.docsState,
           messages |-> <<>>,
           artifact |-> [produced |-> TRUE, title |-> "generated"] ]

\* docs/intent.ts detectDocTypeFromMessages over the text universe
\* ("prd" occurs in PrdRequestText, "adr" in AdrRequestText)
detectDocTypeFromMessages(latest) ==
    IF latest.type = "human" /\ latest.content = TechDesignRequestText THEN "tech_design"
    ELSE IF latest.type = "human" /\ latest.content = PrdRequestText THEN "prd"
    ELSE IF latest.type = "human" /\ latest.content = AdrRequestText THEN "adr"
    ELSE Undefined

\* config.configurable.docType of a run: absent, a catalog type, a type the catalog lacks
ConfigDocTypes == {Undefined, "prd", "whitepaper"}

DefaultDocType == "project_concept_note"

\* docs/intent.ts getDocTypeFromConfig / normalizeDocTypeCandidate: both config
\* values are returned as they are ("prd" is a keyword type, "whitepaper" matches none)
getDocTypeFromConfig(config) == config

\* the sources resolveDocumentDefinition takes a document type from, in its order
DocTypeSources == <<"config", "messages", "default">>

\* docs/intent.ts resolveDocumentDefinition: the id of the definition it returns;
\* each getDocumentDefinition that throws is caught and the next source is tried.
\* failed: the sources for which the catalog could not be loaded when
\* getDocumentDefinition asked for it (it throws as for a type the catalog lacks)
resolveDocumentDefinition(config, latest, fallbackToDefault, failed) ==
    LET docTypeFromConfig == getDocTypeFromConfig(config)
        docTypeFromMessages == detectDocTypeFromMessages(latest)
    IN  IF docTypeFromConfig # Undefined /\ 1 \notin failed /\ docTypeFromConfig \in DOMAIN Catalog
        THEN docTypeFromConfig
        ELSE IF /\ docTypeFromMessages # Undefined
                /\ 2 \notin failed
                /\ docTypeFromMessages \in DOMAIN Catalog
        THEN docTypeFromMessages
        ELSE IF fallbackToDefault /\ 3 \notin failed /\ DefaultDocType \in DOMAIN Catalog
        THEN DefaultDocType
        ELSE Undefined

\* variant: an active session that is not ready is routed by the routing model
dynamicDeterminePath_askModel(state, config, llmRoute, failed) ==
    LET docSession == state.docsState
        active == docSession.defined /\ docSession.active
        inferred == resolveDocumentDefinition(config, state.latestHuman, FALSE, failed)
    IN  IF ~active /\ inferred # Undefined
        THEN [route |-> "replyToGeneralInput", docDefinition |-> inferred]
        ELSE [route |-> llmRoute, docDefinition |-> Undefined]

\* the router returns undefined: the routing model answered without a tool call
NoDecision == [route |-> Undefined, docDefinition |-> Undefined]

\* dynamicDeterminePathFunc: llmRoute is the route of the routing model's tool
\* call when it is asked, Undefined when its answer carries no tool call
\* (lines 731-734: the function then returns undefined, here NoDecision);
\* failed: the sources for which resolveDocumentDefinition could not load the catalog
dynamicDeterminePath(state, config, llmRoute, failed) ==
    LET docSession == state.docsState
        active == docSession.defined /\ docSession.active
        inferred == resolveDocumentDefinition(config, state.latestHuman, FALSE, failed)
    IN  IF ~active /\ inferred # Undefined
        THEN [route |-> "replyToGeneralInput", docDefinition |-> inferred]
        ELSE IF active /\ ~docSession.readyToGenerate
        THEN [route |-> "replyToGeneralInput", docDefinition |-> Undefined]
        ELSE [route |-> llmRoute, docDefinition |-> Undefined]

\* the routes offered to the routing model (z.enum(routes) of the tool schema)
routes(state) ==
    IF state.artifact.produced THEN {"replyToGeneralInput", "rewriteArtifact"}
    ELSE {"replyToGeneralInput", "generateArtifact"}

\* the routing node that calls dynamicDeterminePath: a decision carrying a
\* docDefinition starts the session for it
startSession(state, decision) ==
    IF decision.docDefinition # Undefined
    THEN [state EXCEPT !.docsState = createDocSession(Catalog[decision.docDefinition])]
    ELSE state

-----------------------------------------------------------------------------
(* The thread: a handler run takes one step from each await to the next *)

State == [latestHuman |-> latestHuman, docsState |-> docsState, artifact |-> artifact]

\* handler: the node that ran; kind: how it ended; isNew: a message had just arrived;
\* hadSession: it ran the session's message processing and returned; listed: the message's identity
\* was already in processedMessageIds; processed: the message passed the dedupe guard;
\* askedTargets: the fields the question asked by the previous turn was about;
\* askedAfter: lastAskedQuestionId as the message processing returned it;
\* extractFailed: the extractor call of the run threw;
\* requestedType: the document type asked for when the run had no session to continue;
\* wasReady: the session was readyToGenerate when the run began;
\* loadFailed: a load of the catalog rejected during the run
NoOut == [ handler |-> "none", kind |-> "none", isNew |-> FALSE, hadSession |-> FALSE,
           listed |-> FALSE, processed |-> FALSE, wasReady |-> FALSE,
           supplied |-> {}, askedTargets |-> {}, askedAfter |-> Undefined,
           extractFailed |-> FALSE, requestedType |-> Undefined, messages |-> <<>>,
           loadFailed |-> FALSE ]

\* the targets of the pending question that lastAskedQuestionId refers to
askedTargets(session) ==
    IF session.defined
    THEN UNION { Range(session.pendingQuestions[i].targets) :
                   i \in {j \in DOMAIN session.pendingQuestions :
                             session.pendingQuestions[j].id = session.lastAskedQuestionId} }
    ELSE {}

\* the fields for which a non-blank value was proposed by the extractor
suppliedByExtractor(response) ==
    IF response.ok
    THEN {response.answers[i].fieldId : i \in {j \in DOMAIN response.answers :
                                                 Trim(response.answers[j].value) # ""}}
    ELSE {}

\* the targets of the question the session had asked, when the text is taken as its answer
suppliedByAnswer(session, message) ==
    LET hits == {i \in DOMAIN session.pendingQuestions :
                    session.pendingQuestions[i].id = session.lastAskedQuestionId}
    IN  IF Trim(message.content) # "" /\ ~matchesReadyPattern(message.content) /\ hits # {}
        THEN UNION {Range(session.pendingQuestions[i].targets) : i \in hits}
        ELSE {}

\* the arguments and the result slot of a computeConfidence call not made
NoScoreInput == [given |-> FALSE]
NoScoreReport == [done |-> FALSE]

\* no handler run in progress on the thread.  pc: the await the run is
\* suspended at; resume: where it goes on when the catalog file has been read;
\* isNew: the run began with a message that had just arrived; config:
\* config.configurable.docType of the run; started: the router has started the
\* session in this run; response: what the extractor returned, kept while the
\* template is rendered; node: the node of the chat-path graph that is running;
\* source: the place in DocTypeSources of the document type whose definition
\* resolveDocumentDefinition is waiting for; failed: the sources for which the
\* load of the catalog rejected
IdleRun == [ pc |-> "idle", resume |-> "idle", isNew |-> FALSE, config |-> Undefined,
             started |-> FALSE, response |-> ExtractFailure, node |-> "none",
             source |-> 0, failed |-> {} ]

ThreadInit ==
    /\ path \in {"catalog", "chat"}
    /\ msgCount = 0
    /\ latestHuman = NoMessage
    /\ docsState = NoSession
    /\ artifact = NoArtifact
    /\ now = 0
    /\ out = NoOut
    /\ readySaid = FALSE
    /\ handled = FALSE
    /\ run = IdleRun
    /\ callers = [c \in 1..MaxCallers |-> [pc |-> "idle", ticket |-> 0, result |-> NoCatalog]]
    /\ cachedCatalog = NoCatalog
    /\ reads = 0

\* the arguments and the result slot of a planner call not made
NoPlanInput == [given |-> FALSE]
NoPlanReport == [done |-> FALSE]

ScoreIdle == scoreInput = NoScoreInput /\ scoreReport = NoScoreReport
PlanIdle == planInput = NoPlanInput /\ planReport = NoPlanReport

\* the arguments and the result slot of a merge not made
NoMergeInput == [given |-> FALSE]
NoMergeReport == [done |-> FALSE]

MergeIdle == mergeInput = NoMergeInput /\ mergeReport = NoMergeReport

\* userInputs of a thread created without custom options
NoInputs == [f \in {} |-> ""]

\* no userIntakeNode run yet.  ran: the run reached prepareClarifyingQuestions;
\* priorNone: it began without inputs and without tracked questions; requested:
\* the message authorized assumptions; needed: the blueprint fields needing
\* follow-up after the merge, before any default was filled in; assumed: the
\* fields filled by assumption; asked: the fields of questionsToAsk, in order;
\* untracked: the fields without a tracked question when the run began;
\* surfaced: how often each field's question has been put to the user so far
NoIntakeOut == [ kind |-> "none", ran |-> FALSE, priorNone |-> FALSE, requested |-> FALSE,
                 needed |-> {}, assumed |-> {}, asked |-> <<>>, untracked |-> {},
                 needsUserIntervention |-> FALSE, surfaced |-> [f \in {} |-> 0] ]

IntakeIdle ==
    /\ userInputs = NoInputs
    /\ clarifyingQuestions = <<>>
    /\ conceptNoteStage = "intake"
    /\ intakeOut = NoIntakeOut
    /\ intakeTurns = 0

\* no node of the concept-note graph is under way
NodeIdle == [ pc |-> "idle", needsUserIntervention |-> FALSE, conceptNoteStage |-> "intake",
              userInputs |-> NoInputs ]

\* no run of the concept-note graph yet
NoGraphOut == [node |-> "none", stageBefore |-> "intake", reentered |-> FALSE, threw |-> FALSE]

GraphIdle ==
    /\ needsUserIntervention = FALSE
    /\ nextNode = "none"
    /\ graphMessage = Undefined
    /\ graphOut = NoGraphOut
    /\ nodeRun = NodeIdle

Init ==
    /\ ThreadInit
    /\ GraphIdle
    /\ ScoreIdle
    /\ PlanIdle
    /\ MergeIdle
    /\ IntakeIdle

\* the doc_types.yml the sessions of the thread are created from: Catalog as a source
CatalogSource ==
    [isArray |-> TRUE, doc_types |-> <<PrdDefinition, TechDesignDefinition, AdrDefinition>>]

\* a doc_types.yml without the doc_types array
BrokenSource == [isArray |-> FALSE, doc_types |-> <<>>]

\* what a read of doc_types.yml by a run of the thread can find
ThreadSources == {CatalogSource, BrokenSource}

\* catalog.ts lines 105-108: YAML.parse, then the doc_types check throws on a source without the array
malformed(parsed) == ~parsed.isArray

\* catalog.ts lines 110-140: the Map from definition id to definition
buildCatalog(parsed, ticket) ==
    [ loaded |-> TRUE,
      ticket |-> ticket,
      entries |-> [id \in {parsed.doc_types[i].id : i \in DOMAIN parsed.doc_types} |->
                     parsed.doc_types[CHOOSE i \in DOMAIN parsed.doc_types :
                                         /\ parsed.doc_types[i].id = id
                                         /\ \A j \in DOMAIN parsed.doc_types :
                                               parsed.doc_types[j].id = id => j <= i]] ]

\* a loadDocumentCatalog call of the run r (catalog.ts lines 103-104): the
\* cache is returned when set and the run goes on at `next`; else the read is
\* issued and the run is suspended at `await readFile` until it returns
loadDocumentCatalog_enter(r, next) ==
    IF cachedCatalog.loaded
    THEN /\ run' = [r EXCEPT !.pc = next]
         /\ UNCHANGED reads
    ELSE /\ run' = [r EXCEPT !.pc = "readFile", !.resume = next]
         /\ reads' = reads + 1

\* the read issued by the run returns (catalog.ts lines 105-141).  A source
\* with the doc_types array is built into the Map, stored in cachedCatalog
\* and returned; for one without it the call throws and cachedCatalog stays
\* unset (every read before this one did, so reads - 1 reads found the file
\* broken).  Either way the run goes on in the function that awaited the catalog
ReadFileReturn ==
    /\ run.pc = "readFile"
    /\ \E parsed \in ThreadSources :
         /\ malformed(parsed) => reads <= MaxBrokenReads
         /\ cachedCatalog' = IF malformed(parsed) THEN cachedCatalog
                             ELSE buildCatalog(parsed, reads)
    /\ run' = [run EXCEPT !.pc = run.resume, !.resume = "idle"]
    /\ UNCHANGED <<threadVars, callers, reads, fnVars>>

\* a call that throws inside a node makes the node throw: nothing is written
Thrown(state, kind) ==
    [kind |-> kind, docsState |-> state.docsState, messages |-> <<>>, artifact |-> state.artifact]

\* maybeHandleDocSession returns result or throws: the update is applied to the thread.
\* extracted: updateSessionFromMessage went past its dedupe return to the
\* extractor, whether or not the render that followed threw
CatalogRun(st, isNew, response, result) ==
      LET before == IF st.docsState.defined THEN st.docsState
                    ELSE IF result.kind \in {"undefined", "unknownDocType", "loadError"}
                    THEN NoSession
                    ELSE createSession(detectDocTypeFromMessage(st.latestHuman.content))
          hadSession == /\ before.defined
                        /\ result.kind \notin {"undefined", "unknownDocType", "loadError",
                                                "renderError"}
          listed == /\ before.defined
                    /\ getMessageId(st.latestHuman, st.latestHuman.index)
                           \in Range(before.processedMessageIds)
          processed == hadSession /\ ~listed
          extracted == /\ before.defined
                       /\ result.kind \notin {"undefined", "unknownDocType", "loadError"}
                       /\ ~listed
      IN  /\ docsState' = result.docsState
          /\ artifact' = result.artifact
          /\ msgCount' = msgCount + Len(result.messages)
          /\ now' = now + 1
          /\ readySaid' = /\ result.docsState.defined
                          /\ \/ st.docsState.defined /\ readySaid
                             \/ processed /\ detectReadyIntent(st.latestHuman.content)
          /\ handled' = (hadSession \/ handled)
          /\ run' = IdleRun
          /\ out' = [ handler |-> "maybeHandleDocSession", kind |-> result.kind, isNew |-> isNew,
                      hadSession |-> hadSession, listed |-> listed,
                      wasReady |-> (before.defined /\ before.readyToGenerate),
                      processed |-> processed,
                      supplied |-> IF processed THEN suppliedByExtractor(response) ELSE {},
                      askedTargets |-> askedTargets(st.docsState),
                      askedAfter |-> IF hadSession
                                     THEN updateSessionFromMessage(before, st.latestHuman,
                                              st.latestHuman.index, response, now + 1).lastAskedQuestionId
                                     ELSE Undefined,
                      extractFailed |-> (extracted /\ ~response.ok),
                      requestedType |-> IF st.docsState.defined \/ st.latestHuman.type # "human"
                                        THEN Undefined
                                        ELSE detectDocTypeFromMessage(st.latestHuman.content),
                      messages |-> result.messages,
                      loadFailed |-> result.kind = "loadError" ]
          /\ UNCHANGED <<path, latestHuman>>

\* a user message is written to a catalog-path thread and the node is scheduled
CatalogTurn ==
    /\ path = "catalog"
    /\ run.pc = "idle"
    /\ now < MaxCatalogTurns
    /\ \E hasId \in BOOLEAN, content \in CatalogContents :
         latestHuman' = HumanMessage(hasId, content, msgCount)
    /\ msgCount' = msgCount + 1
    /\ handled' = FALSE
    /\ out' = NoOut
    /\ run' = [IdleRun EXCEPT !.pc = "maybeHandleDocSession", !.isNew = TRUE]
    /\ UNCHANGED <<path, docsState, artifact, now, readySaid, catalogVars, fnVars>>

\* the node is scheduled again on the same messages (a retried or replayed run)
CatalogRerun ==
    /\ path = "catalog"
    /\ run.pc = "idle"
    /\ now < MaxCatalogTurns
    /\ latestHuman.type = "human"
    /\ out' = NoOut
    /\ run' = [IdleRun EXCEPT !.pc = "maybeHandleDocSession"]
    /\ UNCHANGED <<path, msgCount, latestHuman, docsState, artifact, now, readySaid, handled,
                   catalogVars, fnVars>>

\* docs-session.ts lines 282-306: maybeHandleDocSession up to its first await.
\* Without a session and without a document type in the message it returns
\* undefined; without a session it calls createSession, whose first statement
\* is `await loadDocumentCatalog()`; with one it calls updateSessionFromMessage,
\* which returns the session at once for a message it has listed and else
\* awaits getModelFromConfig
CatalogEnter ==
    /\ run.pc = "maybeHandleDocSession"
    /\ IF ~docsState.defined /\ detectDocTypeFromMessage(latestHuman.content) = Undefined
       THEN /\ CatalogRun(State, run.isNew, ExtractFailure,
                          maybeHandleDocSession(State, ExtractFailure, TRUE, now + 1))
            /\ UNCHANGED <<catalogVars, fnVars>>
       ELSE IF ~docsState.defined
       THEN /\ loadDocumentCatalog_enter(run, "createSession")
            /\ UNCHANGED <<threadVars, callers, cachedCatalog, fnVars>>
       ELSE /\ run' = [run EXCEPT !.pc =
                          IF getMessageId(latestHuman, latestHuman.index)
                                \in Range(docsState.processedMessageIds)
                          THEN "updateSessionFromMessage" ELSE "getModelFromConfig"]
            /\ UNCHANGED <<threadVars, catalogVars, fnVars>>

\* docs-session.ts line 88: `await loadDocumentCatalog()` of createSession
\* returns or throws.  A load that failed makes createSession throw, and with
\* it the node; else getDocumentDefinition is called, which awaits the catalog
\* (now cached) itself
CatalogCreateSession ==
    /\ run.pc = "createSession"
    /\ IF ~cachedCatalog.loaded
       THEN CatalogRun(State, run.isNew, ExtractFailure, Thrown(State, "loadError"))
       ELSE /\ run' = [run EXCEPT !.pc = "createSession.getDocumentDefinition"]
            /\ UNCHANGED threadVars
    /\ UNCHANGED <<catalogVars, fnVars>>

\* docs-session.ts lines 89-107, 297-306: getDocumentDefinition returns or
\* throws.  For a type the catalog lacks it throws, and with it the node; else
\* the session is built and handed to updateSessionFromMessage, which has not
\* listed the message and awaits getModelFromConfig
CatalogDefinition ==
    /\ run.pc = "createSession.getDocumentDefinition"
    /\ \E result \in {maybeHandleDocSession(State, ExtractFailure, TRUE, now + 1)} :
         IF result.kind = "unknownDocType"
         THEN CatalogRun(State, run.isNew, ExtractFailure, result)
         ELSE /\ run' = [run EXCEPT !.pc = "getModelFromConfig"]
              /\ UNCHANGED threadVars
    /\ UNCHANGED <<catalogVars, fnVars>>

\* docs-session.ts lines 306-343: updateSessionFromMessage has returned with
\* the extractor's response (none, when the message was listed or the extractor
\* failed); a session that is not ready makes the node return, a ready one is
\* handed to buildArtifactFromTemplate
CatalogUpdated(response) ==
    \E result \in {maybeHandleDocSession(State, response, TRUE, now + 1)} :
       IF result.kind = "artifact"
       THEN /\ run' = [run EXCEPT !.pc = "buildArtifactFromTemplate", !.response = response]
            /\ UNCHANGED threadVars
       ELSE CatalogRun(State, run.isNew, response, result)

\* docs-session.ts lines 131-156: `await getModelFromConfig` of
\* updateSessionFromMessage returns, and model.invoke is awaited, or it throws
\* inside the try block, which ends the extraction without a response
CatalogGetModel ==
    /\ run.pc = "getModelFromConfig"
    /\ \E ok \in BOOLEAN :
         IF ok
         THEN /\ run' = [run EXCEPT !.pc = "model.invoke"]
              /\ UNCHANGED threadVars
         ELSE CatalogUpdated(ExtractFailure)
    /\ UNCHANGED <<catalogVars, fnVars>>

\* docs-session.ts lines 124-127, 156-217: updateSessionFromMessage returns,
\* at once for a listed message, else when model.invoke has answered or thrown
CatalogUpdateSession ==
    /\ run.pc \in {"updateSessionFromMessage", "model.invoke"}
    /\ \E response \in IF run.pc = "model.invoke"
                       THEN ExtractorResponses(Definition(
                                IF docsState.defined THEN docsState
                                ELSE createSession(detectDocTypeFromMessage(latestHuman.content))))
                       ELSE {ExtractFailure} :
         CatalogUpdated(response)
    /\ UNCHANGED <<catalogVars, fnVars>>

\* docs-session.ts lines 345-352: the template is rendered and the artifact
\* returned, or the render throws and with it the node
CatalogRender ==
    /\ run.pc = "buildArtifactFromTemplate"
    /\ \E renderOk \in BOOLEAN :
         CatalogRun(State, run.isNew, run.response,
                    maybeHandleDocSession(State, run.response, renderOk, now + 1))
    /\ UNCHANGED <<catalogVars, fnVars>>

\* research answers one of the definition's research prompts and attaches a
\* citation for the fields the prompt applies to (external collaborator, at
\* work between the runs of the node)
AttachCitation ==
    /\ path = "catalog"
    /\ run.pc = "idle"
    /\ docsState.defined
    /\ Len(docsState.citations) < MaxCitations
    /\ \E p \in DOMAIN Definition(docsState).research_prompts :
         docsState' = [docsState EXCEPT !.citations =
                          Append(@, [appliesTo |-> Range(Definition(docsState).research_prompts[p].applies_to)])]
    /\ UNCHANGED <<path, msgCount, latestHuman, artifact, now, out, readySaid, handled, run,
                   catalogVars, fnVars>>

\* a node of the chat-path graph returns or throws, or the router returns no
\* decision, and the run ends: the node's update is applied to the thread
ChatRun(handler, result) ==
    LET before == docsState
        active == before.defined /\ before.active
        hadSession == handler = "replyToGeneralInput" /\ active /\ result.kind = "reply"
        listed == /\ before.defined
                  /\ getDeterministicMessageId(latestHuman) # Undefined
                  /\ getDeterministicMessageId(latestHuman) \in Range(before.processedMessageIds)
        processed == hadSession /\ ~listed
    IN  /\ docsState' = result.docsState
        /\ artifact' = result.artifact
        /\ msgCount' = msgCount + Len(result.messages)
        /\ now' = now + 1
        /\ readySaid' = (readySaid \/ (processed /\ detectReadyIntent(latestHuman.content)))
        /\ handled' = (hadSession \/ handled)
        /\ run' = IdleRun
        /\ out' = [ handler |-> handler, kind |-> result.kind, isNew |-> run.isNew,
                    hadSession |-> hadSession, listed |-> listed,
                    wasReady |-> (before.defined /\ before.readyToGenerate),
                    processed |-> processed,
                    supplied |-> IF processed THEN suppliedByAnswer(before, latestHuman) ELSE {},
                    askedTargets |-> askedTargets(before),
                    askedAfter |-> IF hadSession
                                   THEN processDocSessionMessages(before, latestHuman,
                                                                  now + 1).lastAskedQuestionId
                                   ELSE Undefined,
                    extractFailed |-> FALSE,
                    requestedType |-> IF active /\ ~run.started THEN Undefined
                                      ELSE IF getDocTypeFromConfig(run.config) # Undefined
                                      THEN getDocTypeFromConfig(run.config)
                                      ELSE detectDocTypeFromMessages(latestHuman),
                    messages |-> result.messages,
                    loadFailed |-> run.failed # {} ]
        /\ UNCHANGED <<path, latestHuman, catalogVars, fnVars>>

\* config.configurable.docType of a run: the router reads it while no session
\* is active, generateArtifact on every run
RunConfigs == ConfigDocTypes

\* a user message is written to a chat-path thread and the router is scheduled
ChatTurn ==
    /\ path = "chat"
    /\ run.pc = "idle"
    /\ now < MaxChatTurns
    /\ \E hasId \in BOOLEAN, content \in ChatContents :
         latestHuman' = HumanMessage(hasId, content, msgCount)
    /\ \E config \in RunConfigs :
         run' = [IdleRun EXCEPT !.pc = "generatePath", !.isNew = TRUE, !.config = config]
    /\ msgCount' = msgCount + 1
    /\ handled' = FALSE
    /\ out' = NoOut
    /\ UNCHANGED <<path, docsState, artifact, now, readySaid, catalogVars, fnVars>>

\* the graph is run again on the same messages
ChatRerun ==
    /\ path = "chat"
    /\ run.pc = "idle"
    /\ now < MaxChatTurns
    /\ latestHuman.type = "human"
    /\ \E config \in RunConfigs :
         run' = [IdleRun EXCEPT !.pc = "generatePath", !.config = config]
    /\ out' = NoOut
    /\ UNCHANGED <<path, msgCount, latestHuman, docsState, artifact, now, readySaid, handled,
                   catalogVars, fnVars>>

\* docs/intent.ts lines 140-169: resolveDocumentDefinition of the run r goes to
\* the first source, from place i of DocTypeSources on, that names a document
\* type and awaits its getDocumentDefinition, which asks for the catalog; with
\* no source left it returns undefined
resolveDocumentDefinition_from(r, i) ==
    LET j == IF i <= 1 /\ getDocTypeFromConfig(r.config) # Undefined THEN 1
             ELSE IF i <= 2 /\ detectDocTypeFromMessages(latestHuman) # Undefined THEN 2
             ELSE IF i <= 3 /\ r.node = "generateArtifact" THEN 3
             ELSE 0
    IN  IF j = 0
        THEN /\ run' = [r EXCEPT !.pc = "resolveDocumentDefinition", !.source = 0]
             /\ UNCHANGED reads
        ELSE loadDocumentCatalog_enter([r EXCEPT !.source = j], "getDocumentDefinition")

\* docs/intent.ts lines 143-175: a getDocumentDefinition awaited by
\* resolveDocumentDefinition returns the definition, which the resolver
\* returns, or it throws, for a catalog that could not be loaded or for a type
\* the catalog lacks; the resolver catches that and goes to its next source
ResolveReturn ==
    /\ run.pc = "getDocumentDefinition"
    /\ LET docType == CASE run.source = 1 -> getDocTypeFromConfig(run.config)
                        [] run.source = 2 -> detectDocTypeFromMessages(latestHuman)
                        [] OTHER -> DefaultDocType
           failed == IF cachedCatalog.loaded THEN run.failed ELSE run.failed \cup {run.source}
       IN  IF cachedCatalog.loaded /\ docType \in DOMAIN cachedCatalog.entries
           THEN /\ run' = [run EXCEPT !.pc = "resolveDocumentDefinition", !.source = 0]
                /\ UNCHANGED reads
           ELSE resolveDocumentDefinition_from([run EXCEPT !.failed = failed], run.source + 1)
    /\ UNCHANGED <<threadVars, callers, cachedCatalog, fnVars>>

\* concept-note-state.ts lines 636-655, 697: dynamicDeterminePathFunc up to its
\* first await.  Without an active session it awaits resolveDocumentDefinition;
\* an active session that is not ready is routed at once; for a ready one
\* getModelFromConfig is awaited on the way to the routing model
RouterEnter ==
    /\ run.pc = "generatePath"
    /\ IF ~(docsState.defined /\ docsState.active)
       THEN resolveDocumentDefinition_from([run EXCEPT !.node = "generatePath"], 1)
       ELSE LET decision == dynamicDeterminePath(State, run.config, Undefined, {})
            IN  /\ run' = [run EXCEPT !.node = "generatePath",
                                      !.pc = IF decision # NoDecision THEN decision.route
                                             ELSE "router.getModelFromConfig"]
                /\ UNCHANGED reads
    /\ UNCHANGED <<threadVars, callers, cachedCatalog, fnVars>>

\* concept-note-state.ts lines 642-653, 697: resolveDocumentDefinition returns.
\* A definition makes the router return the decision that starts the session,
\* which the routing node writes to the thread before the routed node runs;
\* without one getModelFromConfig is awaited on the way to the routing model
RouterResolved ==
    /\ run.pc = "resolveDocumentDefinition"
    /\ run.node = "generatePath"
    /\ LET decision == dynamicDeterminePath(State, run.config, Undefined, run.failed)
       IN  IF decision # NoDecision
           THEN /\ docsState' = startSession(State, decision).docsState
                /\ readySaid' = FALSE
                /\ run' = [run EXCEPT !.pc = decision.route, !.started = TRUE]
           ELSE /\ run' = [run EXCEPT !.pc = "router.getModelFromConfig"]
                /\ UNCHANGED <<docsState, readySaid>>
    /\ UNCHANGED <<path, msgCount, latestHuman, artifact, now, out, handled, catalogVars, fnVars>>

\* the awaits of dynamicDeterminePathFunc before the routing model is asked,
\* each with the await that follows it
RouterAwaits ==
    ("router.getModelFromConfig" :> "router.createContextDocumentMessages")
      @@ ("router.createContextDocumentMessages" :> "routeModel")

\* concept-note-state.ts lines 697-722: getModelFromConfig or
\* createContextDocumentMessages returns and the next call is awaited, or it
\* throws, and with it the router: the run ends with the thread as it was
RouterAwait ==
    /\ run.pc \in DOMAIN RouterAwaits
    /\ \E ok \in BOOLEAN :
         IF ok
         THEN /\ run' = [run EXCEPT !.pc = RouterAwaits[run.pc]]
              /\ UNCHANGED <<threadVars, catalogVars, fnVars>>
         ELSE ChatRun("none", Thrown(State, "error"))

\* concept-note-state.ts lines 722-736: the routing model answers or throws.
\* Its tool call names the node to run; without a tool call the router returns
\* undefined, no node runs and the run ends with the thread as it was
RouterModel ==
    /\ run.pc = "routeModel"
    /\ \E ok \in BOOLEAN, llmRoute \in routes(State) \cup {Undefined} :
         LET decision == dynamicDeterminePath(State, run.config, llmRoute, run.failed)
         IN  IF ~ok
             THEN ChatRun("none", Thrown(State, "error"))
             ELSE IF decision = NoDecision
             THEN ChatRun("none", Thrown(State, "noRoute"))
             ELSE /\ run' = [run EXCEPT !.pc = decision.route]
                  /\ UNCHANGED <<threadVars, catalogVars, fnVars>>

\* concept-note-action.ts line 492: the reply node awaits getModelFromConfig
ReplyEnter ==
    /\ run.pc = "replyToGeneralInput"
    /\ run' = [run EXCEPT !.pc = "reply.getModelFromConfig"]
    /\ UNCHANGED <<threadVars, catalogVars, fnVars>>

\* the awaits of replyToGeneralInput before smallModel is asked, each with the
\* await that follows it
ReplyAwaits ==
    ("reply.getModelFromConfig" :> "store.get")
      @@ ("store.get" :> "reply.createContextDocumentMessages")
      @@ ("reply.createContextDocumentMessages" :> "smallModel")

\* concept-note-action.ts lines 492-534: getModelFromConfig, store.get or
\* createContextDocumentMessages returns and the next call is awaited, or it
\* throws, and with it the node.  After getModelFromConfig the node throws
\* when config.configurable has no assistant_id; after
\* createContextDocumentMessages the session update is computed and
\* smallModel.invoke is awaited
ReplyAwait ==
    /\ run.pc \in DOMAIN ReplyAwaits
    /\ \E ok \in BOOLEAN, hasAssistantId \in BOOLEAN :
         IF ~ok
         THEN ChatRun("replyToGeneralInput", replyToGeneralInput(State, TRUE, FALSE, now + 1))
         ELSE IF run.pc = "reply.getModelFromConfig" /\ ~hasAssistantId
         THEN ChatRun("replyToGeneralInput", replyToGeneralInput(State, FALSE, TRUE, now + 1))
         ELSE /\ run' = [run EXCEPT !.pc = ReplyAwaits[run.pc]]
              /\ UNCHANGED <<threadVars, catalogVars, fnVars>>

\* concept-note-action.ts lines 534-582: smallModel.invoke answers and the
\* node returns the reply with the session update, or it throws
ReplyReturn ==
    /\ run.pc = "smallModel"
    /\ \E replyOk \in BOOLEAN :
         ChatRun("replyToGeneralInput", replyToGeneralInput(State, TRUE, replyOk, now + 1))

\* generate-artifact/index.ts lines 423-426: generateArtifact awaits
\* resolveDocumentDefinition, which falls back to the default document type
GenerateEnter ==
    /\ run.pc = "generateArtifact"
    /\ resolveDocumentDefinition_from([run EXCEPT !.node = "generateArtifact"], 1)
    /\ UNCHANGED <<threadVars, callers, cachedCatalog, fnVars>>

\* the awaits of generateArtifact before the artifact model is asked, each
\* with the await that follows it
GenerateAwaits ==
    ("resolveDocumentDefinition" :> "generate.getModelFromConfig")
      @@ ("generate.getModelFromConfig" :> "getFormattedReflections")
      @@ ("getFormattedReflections" :> "generate.createContextDocumentMessages")
      @@ ("generate.createContextDocumentMessages" :> "artifactModel")

\* generate-artifact/index.ts lines 423-476: resolveDocumentDefinition,
\* getModelFromConfig, getFormattedReflections or
\* createContextDocumentMessages returns and the next call is awaited, or it
\* throws, and with it the node (resolveDocumentDefinition never throws)
GenerateAwait ==
    /\ run.pc \in DOMAIN GenerateAwaits
    /\ run.node = "generateArtifact"
    /\ \E ok \in IF run.pc = "resolveDocumentDefinition" THEN {TRUE} ELSE BOOLEAN :
         IF ok
         THEN /\ run' = [run EXCEPT !.pc = GenerateAwaits[run.pc]]
              /\ UNCHANGED <<threadVars, catalogVars, fnVars>>
         ELSE ChatRun("generateArtifact", generateArtifact(State, FALSE))

\* generate-artifact/index.ts lines 476-499: the artifact model answers with
\* the tool call, or the node throws
GenerateReturn ==
    /\ run.pc = "artifactModel"
    /\ \E llmOk \in BOOLEAN : ChatRun("generateArtifact", generateArtifact(State, llmOk))

\* the rewriteArtifact node runs; it leaves the session as it is
RewriteReturn ==
    /\ run.pc = "rewriteArtifact"
    /\ ChatRun("rewriteArtifact", [kind |-> "rewrite", docsState |-> docsState,
                                   messages |-> <<>>, artifact |-> artifact])

Next ==
    \/ CatalogTurn \/ CatalogRerun \/ CatalogEnter \/ CatalogCreateSession
    \/ CatalogDefinition \/ CatalogGetModel \/ CatalogUpdateSession \/ CatalogRender
    \/ AttachCitation
    \/ ChatTurn \/ ChatRerun \/ RouterEnter \/ ResolveReturn \/ RouterResolved
    \/ RouterAwait \/ RouterModel \/ ReplyEnter \/ ReplyAwait \/ ReplyReturn
    \/ GenerateEnter \/ GenerateAwait \/ GenerateReturn \/ RewriteReturn
    \/ ReadFileReturn

Spec == Init /\ [][Next]_vars

-----------------------------------------------------------------------------
(* docs/catalog.ts loadDocumentCatalog: an async function, suspended at        *)
(* `await readFile(...)`; callers of one process interleave at that await.     *)
(* A Map built by a load carries the ticket of the read that fed it.           *)

\* lines 103-104: return the cache if set, else issue the read and suspend
loadDocumentCatalog_call(c) ==
    /\ callers[c].pc = "idle"
    /\ IF cachedCatalog.loaded
       THEN /\ callers' = [callers EXCEPT ![c] = [pc |-> "done", ticket |-> 0, result |-> cachedCatalog]]
            /\ UNCHANGED <<cachedCatalog, reads>>
       ELSE /\ reads' = reads + 1
            /\ callers' = [callers EXCEPT ![c] = [pc |-> "reading", ticket |-> reads + 1, result |-> NoCatalog]]
            /\ UNCHANGED cachedCatalog
    /\ UNCHANGED <<sessionVars, fnVars>>

\* lines 105-141: parse what the read returned, build the Map, store it in
\* cachedCatalog and return it; or throw
loadDocumentCatalog_resume(c) ==
    /\ callers[c].pc = "reading"
    /\ \E parsed \in CatalogSources :
         IF malformed(parsed)
         THEN /\ callers' = [callers EXCEPT ![c] = [pc |-> "failed", ticket |-> 0, result |-> NoCatalog]]
              /\ UNCHANGED cachedCatalog
         ELSE /\ cachedCatalog' = buildCatalog(parsed, callers[c].ticket)
              /\ callers' = [callers EXCEPT ![c] = [pc |-> "done", ticket |-> 0,
                                                    result |-> buildCatalog(parsed, callers[c].ticket)]]
    /\ UNCHANGED <<reads, sessionVars, fnVars>>

LoadInit == Init /\ path = "catalog"

LoadNext == \E c \in 1..MaxCallers : loadDocumentCatalog_call(c) \/ loadDocumentCatalog_resume(c)

LoadSpec == LoadInit /\ [][LoadNext]_vars

-----------------------------------------------------------------------------
(* docs/scoring.ts computeConfidence as a pure function: the arguments are    *)
(* drawn in the initial state, the call computes the report.                  *)

ScoreFieldIds == <<"context", "decision", "alternatives", "status">>

\* definitions with up to MaxScoreFields required fields, weights 0..MaxWeight
ScoreDefinitions ==
    UNION { { [ id |-> "scored",
                required_fields |-> [i \in 1..n |-> [id |-> ScoreFieldIds[i], weight |-> w[i],
                                                    required |-> TRUE]],
                optional_fields |-> << >> ]
              : w \in [1..n -> 0..MaxWeight] } : n \in 0..MaxScoreFields }

\* dossier values: empty, blank, a text, a placeholder
ScoreValues == {"", BlankText, AnswerText, "TBD"}

\* dossiers over the ids a definition may use; an id may be absent
ScoreDossiers ==
    UNION { [S -> ScoreValues] : S \in SUBSET {ScoreFieldIds[i] : i \in 1..MaxScoreFields} }

ScoreCitations == { <<>>, << [appliesTo |-> {ScoreFieldIds[1]}] >> }

ScoreInit ==
    /\ ThreadInit
    /\ GraphIdle
    /\ path = "catalog"
    /\ scoreInput \in { [given |-> TRUE, definition |-> d, dossier |-> v, citations |-> c]
                          : d \in ScoreDefinitions, v \in ScoreDossiers, c \in ScoreCitations }
    /\ scoreReport = NoScoreReport
    /\ PlanIdle
    /\ MergeIdle
    /\ IntakeIdle

computeConfidence_call ==
    /\ scoreInput.given
    /\ ~scoreReport.done
    /\ scoreReport' = [done |-> TRUE] @@ computeConfidence(scoreInput.definition, scoreInput.dossier,
                                                           scoreInput.citations)
    /\ UNCHANGED <<sessionVars, catalogVars, scoreInput, planVars, mergeVars, intakeVars, graphVars>>

ScoreNext == computeConfidence_call

ScoreSpec == ScoreInit /\ [][ScoreNext]_vars

-----------------------------------------------------------------------------
(* Question planner as a pure function of a catalog entry: the raw entry is   *)
(* drawn in the initial state; the call loads it (catalog.ts lines 110-137),  *)
(* plans its questions and sorts the plan as createDocSession does.           *)

\* a RawRequirement: weight is an optional key
RawRequirements(id) == {[id |-> id]} \cup {[id |-> id, weight |-> w] : w \in 0..MaxWeight}

\* target lists over the declared fields of the drawn entries
PlanTargets == { <<"context">>, <<"decision">>, <<"alternatives">>, <<"context", "alternatives">> }

PlanQuestionIds == <<"q1", "q2", "q3", "q4", "q5">>

\* raw entries: required context and decision, optional alternatives, up to
\* MaxPlanQuestions questions
RawDefinitions ==
    { [ id |-> "planned",
        name |-> "Planned Document",
        template |-> "planned.hbs",
        required_fields |-> <<c, d>>,
        optional_fields |-> <<a>>,
        diagnostic_questions |-> [i \in DOMAIN t |-> [id |-> PlanQuestionIds[i], targets |-> t[i]]] ]
      : c \in RawRequirements("context"), d \in RawRequirements("decision"),
        a \in RawRequirements("alternatives"),
        t \in UNION { [1..n -> PlanTargets] : n \in 0..MaxPlanQuestions } }

\* catalog.ts lines 110-137: one doc_types entry to a DocumentDefinition
normalizeDefinition(doc) ==
    [ id |-> doc.id,
      name |-> doc.name,
      template |-> doc.template,
      required_fields |-> [i \in DOMAIN doc.required_fields |->
                              normalizeRequirement(doc.required_fields[i], TRUE)],
      optional_fields |-> [i \in DOMAIN doc.optional_fields |->
                              normalizeRequirement(doc.optional_fields[i], FALSE)],
      diagnostic_questions |-> doc.diagnostic_questions,
      research_prompts |-> << >> ]

PlanInit ==
    /\ ThreadInit
    /\ GraphIdle
    /\ path = "catalog"
    /\ ScoreIdle
    /\ MergeIdle
    /\ IntakeIdle
    /\ planInput \in { [given |-> TRUE, doc |-> doc] : doc \in RawDefinitions }
    /\ planReport = NoPlanReport

materializeQuestionPlan_call ==
    /\ planInput.given
    /\ ~planReport.done
    /\ \E definition \in {normalizeDefinition(planInput.doc)} :
         planReport' = [ done |-> TRUE,
                         definition |-> definition,
                         plan |-> materializeQuestionPlan(definition),
                         sorted |-> sortQuestionsByPriority(materializeQuestionPlan(definition)) ]
    /\ UNCHANGED <<sessionVars, catalogVars, scoreVars, planInput, mergeVars, intakeVars, graphVars>>

PlanNext == materializeQuestionPlan_call

PlanSpec == PlanInit /\ [][PlanNext]_vars

-----------------------------------------------------------------------------
(* Concept-note intake: nodes/concept-note/user-intake.ts.  UserInputs is a   *)
(* function from the field names that are set to their values; a field that   *)
(* is undefined is not in its domain.                                         *)

ScalarFields == {"title", "description", "targetAudience", "budget", "timeline", "scope"}

ListFields == {"requirements", "objectives", "keyActivities", "keyChallenges",
               "successMetrics", "keyPartners"}

\* inputs with field f set to value v
WithField(inputs, f, v) == [g \in DOMAIN inputs \cup {f} |-> IF g = f THEN v ELSE inputs[g]]

\* inputs with field f undefined
WithoutField(inputs, f) == [g \in DOMAIN inputs \ {f} |-> inputs[g]]

\* Array.from(new Set(items)): first occurrences, in order
RECURSIVE Unique(_)
Unique(items) ==
    IF items = <<>> THEN <<>>
    ELSE LET front == Unique(SubSeq(items, 1, Len(items) - 1))
             last == items[Len(items)]
         IN  IF last \in Range(front) THEN front ELSE Append(front, last)

\* .map(item => item.trim()).filter(item => item.length > 0)
TrimmedNonEmpty(items) ==
    SelectSeq([i \in DOMAIN items |-> Trim(items[i])], LAMBDA item : item # "")

\* variant: the combined list is returned without the Set
mergeStringLists_noDedupe(existing, incoming) ==
    LET combined == TrimmedNonEmpty((IF existing.has THEN existing.items ELSE <<>>) \o incoming)
    IN  IF Len(combined) > 0 THEN [has |-> TRUE, items |-> combined] ELSE existing

\* mergeStringLists(existing?, incoming): existing is [has, items], has = FALSE for undefined
mergeStringLists(existing, incoming) ==
    LET combined == TrimmedNonEmpty((IF existing.has THEN existing.items ELSE <<>>) \o incoming)
        unique == Unique(combined)
    IN  IF Len(unique) > 0 THEN [has |-> TRUE, items |-> unique] ELSE existing

\* existing.<field> as mergeStringLists receives it
ListOf(inputs, f) ==
    IF f \in DOMAIN inputs THEN [has |-> TRUE, items |-> inputs[f]] ELSE [has |-> FALSE, items |-> <<>>]

\* one field of mergeUserInputs: a truthy scalar overwrites; a list (an empty
\* array is truthy) is merged with the existing list, every time from existing
mergeField(existing, merged, updates, f) ==
    IF f \notin DOMAIN updates THEN merged
    ELSE IF f \in ScalarFields
    THEN IF updates[f] # "" THEN WithField(merged, f, updates[f]) ELSE merged
    ELSE LET result == mergeStringLists(ListOf(existing, f), updates[f])
         IN  IF result.has THEN WithField(merged, f, result.items) ELSE WithoutField(merged, f)

RECURSIVE mergeFields(_, _, _, _)
mergeFields(existing, merged, updates, fields) ==
    IF fields = {} THEN merged
    ELSE LET f == CHOOSE g \in fields : TRUE
         IN  mergeFields(existing, mergeField(existing, merged, updates, f), updates, fields \ {f})

\* mergeUserInputs(existing, updates)
mergeUserInputs(existing, updates) ==
    mergeFields(existing, existing, updates, ScalarFields \cup ListFields)

\* the items lists are drawn from
ListItems == {PlainItem, PaddedItem, OtherItem, BlankText}

MergeLists == UNION { [1..n -> ListItems] : n \in 0..MaxListLen }

\* prior inputs: as a fresh thread has them, or as earlier merges left them
MergeExisting(f) == { NoInputs, WithField(NoInputs, f, <<OtherItem>>),
                      WithField(NoInputs, f, <<PlainItem, OtherItem>>) }

MergeInit ==
    /\ ThreadInit
    /\ GraphIdle
    /\ path = "catalog"
    /\ ScoreIdle
    /\ PlanIdle
    /\ IntakeIdle
    /\ mergeInput \in UNION { { [given |-> TRUE, field |-> f, existing |-> e, x |-> x, y |-> y]
                                 : e \in MergeExisting(f), x \in MergeLists, y \in MergeLists }
                              : f \in {"objectives", "keyPartners"} }
    /\ mergeReport = NoMergeReport

mergeUserInputs_call ==
    /\ mergeInput.given
    /\ ~mergeReport.done
    /\ LET f == mergeInput.field
           X == WithField(NoInputs, f, mergeInput.x)
           Y == WithField(NoInputs, f, mergeInput.y)
       IN  mergeReport' = [ done |-> TRUE,
                            xy |-> mergeUserInputs(mergeUserInputs(mergeInput.existing, X), Y),
                            yx |-> mergeUserInputs(mergeUserInputs(mergeInput.existing, Y), X) ]
    /\ UNCHANGED <<sessionVars, catalogVars, scoreVars, planVars, mergeInput, intakeVars, graphVars>>

MergeNext == mergeUserInputs_call

MergeSpec == MergeInit /\ [][MergeNext]_vars

-----------------------------------------------------------------------------
(* Concept-note intake node: userIntakeNode and what it calls *)

MAX_QUESTIONS_PER_PROMPT == 4
MIN_DESCRIPTION_LENGTH == 80

\* the messages of an intake thread
AssumeText == "you can assume the rest and proceed"
GenerateAssumeText == "generate the draft and feel free to assume the rest"
TitleText == "Title: Solar Mini-Grid Rollout"
DetailsText == "Budget: 250000 USD\nTimeline: 18 months"
DescBody == "We will deploy solar mini-grids across forty rural villages to power households, clinics and schools reliably."
DescText == "Description: " \o DescBody
ShortDescBody == "Solar mini-grids for forty rural villages in the north."
ShortDescText == "Description: " \o ShortDescBody
OkText == "ok"
ObjectivesText == "Objectives: storage, metering"
\* userContent of conceptNoteAction when the thread holds no human message
DefaultConceptText == "Generate a concept note"

IntakeContents == {AssumeText, GenerateAssumeText, TitleText, DetailsText, DescText,
                   ShortDescText, OkText, ObjectivesText}

\* the default values of applyAssumptionForField and the titles of suggestWorkingTitle
FallbackTitle == "Strategic Concept Note Initiative"
AssumedAudience == "General stakeholders (assumed)"
AssumedTimeline == "Approximately 6-12 months (assumed)"  \* the source has an en dash in 6-12
AssumedBudget == "Budget to be confirmed during planning (assumed)"
AssumedScope == "Local or regional focus (assumed)"
AssumedActivities == << "Discovery and requirements workshops",
                        "Pilot implementation of the core solution",
                        "Evaluation and scale-up planning" >>
AssumedChallenges == << "Stakeholder alignment and change management",
                        "Resource availability and budget approvals",
                        "Data, compliance, or policy considerations" >>
AssumedMetrics == << "Achievement of the primary project objectives",
                     "Stakeholder satisfaction beating target thresholds",
                     "On-time delivery of critical milestones" >>
AssumedPartners == << "Executive sponsor or leadership champion",
                      "Core delivery team or PMO",
                      "Key external collaborators or vendors" >>
AssumedRequirements ==
    << "Detailed functional and non-functional requirements to be confirmed with stakeholders." >>

\* String.prototype.length of title.trim() / description.trim() over the universe
TextLength(text) ==
    CASE text = AssumeText -> 35
      [] text = "Solar Mini-Grid Rollout" -> 23
      [] text = "Budget: 250000 USD" -> 18
      [] text = DescText -> 123
      [] text = DescBody -> 110
      [] text = ShortDescText -> 68
      [] text = ShortDescBody -> 55
      [] text = ObjectivesText -> 29
      [] text = "Will Deploy Solar Initiative" -> 28
      [] text = "Solar Mini Grids Initiative" -> 27
      [] text = "donors Concept Initiative" -> 25
      [] text = FallbackTitle -> 33

\* extractUserInputsFromContent: what the extractors' patterns take from each
\* message (the first line is a title unless it begins with "generate"; the
\* enumerated-objective pattern matches "Objectives:" case-insensitively)
extractUserInputsFromContent(content) ==
    CASE content = AssumeText -> WithField(NoInputs, "title", AssumeText)
      [] content = GenerateAssumeText -> NoInputs
      [] content = TitleText -> WithField(NoInputs, "title", "Solar Mini-Grid Rollout")
      [] content = DetailsText ->
            WithField(WithField(WithField(NoInputs, "title", "Budget: 250000 USD"),
                                "budget", "250000 USD"), "timeline", "18 months")
      [] content = DescText ->
            WithField(WithField(NoInputs, "title", DescText), "description", DescBody)
      [] content = ShortDescText ->
            WithField(WithField(NoInputs, "title", ShortDescText), "description", ShortDescBody)
      [] content = OkText -> NoInputs
      [] content = DefaultConceptText -> NoInputs
      [] content = ObjectivesText ->
            WithField(WithField(NoInputs, "title", ObjectivesText),
                      "objectives", <<"storage, metering">>)

\* didUserRequestAssumptions: "you can assume" / "feel free to assume" occur in the text
didUserRequestAssumptions(content) == content \in {AssumeText, GenerateAssumeText}

\* !inputs.<scalar field>
Falsy(inputs, f) == f \notin DOMAIN inputs \/ inputs[f] = ""

\* !inputs.<list field> || inputs.<list field>.length === 0
NoItems(inputs, f) == f \notin DOMAIN inputs \/ inputs[f] = <<>>

GenericPhrases == {"concept note", "project concept", "project proposal", "concept paper", "proposal"}

\* isGenericTitle(inputs.title); the titles of the universe hold no upper-case
\* generic phrase
isGenericTitle(inputs) ==
    \/ Falsy(inputs, "title")
    \/ TextLength(inputs["title"]) <= 6
    \/ inputs["title"] \in GenericPhrases

\* CLARITY_BLUEPRINT, in its order: field, required, priority
CLARITY_BLUEPRINT ==
    << [field |-> "title", required |-> TRUE, priority |-> 1],
       [field |-> "description", required |-> TRUE, priority |-> 2],
       [field |-> "objectives", required |-> FALSE, priority |-> 3],
       [field |-> "targetAudience", required |-> FALSE, priority |-> 4],
       [field |-> "timeline", required |-> FALSE, priority |-> 5],
       [field |-> "budget", required |-> FALSE, priority |-> 6],
       [field |-> "scope", required |-> FALSE, priority |-> 7],
       [field |-> "keyActivities", required |-> FALSE, priority |-> 8],
       [field |-> "keyChallenges", required |-> FALSE, priority |-> 9],
       [field |-> "successMetrics", required |-> FALSE, priority |-> 10],
       [field |-> "keyPartners", required |-> FALSE, priority |-> 11] >>

BlueprintFields == {CLARITY_BLUEPRINT[i].field : i \in DOMAIN CLARITY_BLUEPRINT}

\* BLUEPRINT_LOOKUP.get(field)
BLUEPRINT_LOOKUP(field) ==
    CLARITY_BLUEPRINT[CHOOSE i \in DOMAIN CLARITY_BLUEPRINT : CLARITY_BLUEPRINT[i].field = field]

\* entry.followUpNeeded(inputs) of the entry for field
followUpNeeded(field, inputs) ==
    CASE field = "title" -> isGenericTitle(inputs)
      [] field = "description" ->
            Falsy(inputs, "description")
              \/ TextLength(inputs["description"]) < MIN_DESCRIPTION_LENGTH
      [] field \in {"targetAudience", "timeline", "budget", "scope"} -> Falsy(inputs, field)
      [] OTHER -> NoItems(inputs, field)

\* the first three words of more than three letters of the description,
\* capitalized, when it has two or more: the descriptions of the universe
TitleWords(description) ==
    CASE description = DescBody -> "Will Deploy Solar"
      [] description = ShortDescBody -> "Solar Mini Grids"

\* suggestWorkingTitle(inputs)
suggestWorkingTitle(inputs) ==
    IF ~isGenericTitle(inputs) THEN inputs["title"]
    ELSE IF ~Falsy(inputs, "description") THEN TitleWords(inputs["description"]) \o " Initiative"
    ELSE IF ~Falsy(inputs, "targetAudience") THEN inputs["targetAudience"] \o " Concept Initiative"
    ELSE FallbackTitle

\* suggestObjectives(inputs)
suggestObjectives(inputs) ==
    << "Validate the solution approach through a structured pilot and stakeholder feedback.",
       "Deliver measurable improvements for "
          \o (IF Falsy(inputs, "targetAudience") THEN "key stakeholders" ELSE inputs["targetAudience"])
          \o " within the initial implementation cycle.",
       "Establish governance, success metrics, and a roadmap that enable sustainable scale." >>

\* applyAssumptionForField(field, inputs): the inputs as it leaves them and the
\* boolean it returns; "description" has no case and falls to the default
applyAssumptionForField(field, inputs) ==
    CASE field = "title" ->
            [inputs |-> WithField(inputs, "title", suggestWorkingTitle(inputs)), assumed |-> TRUE]
      [] field = "objectives" ->
            IF NoItems(inputs, field)
            THEN [inputs |-> WithField(inputs, field, suggestObjectives(inputs)), assumed |-> TRUE]
            ELSE [inputs |-> inputs, assumed |-> FALSE]
      [] field \in {"targetAudience", "timeline", "budget", "scope"} ->
            IF Falsy(inputs, field)
            THEN [inputs |-> WithField(inputs, field,
                                       CASE field = "targetAudience" -> AssumedAudience
                                         [] field = "timeline" -> AssumedTimeline
                                         [] field = "budget" -> AssumedBudget
                                         [] field = "scope" -> AssumedScope),
                  assumed |-> TRUE]
            ELSE [inputs |-> inputs, assumed |-> FALSE]
      [] field \in {"keyActivities", "keyChallenges", "successMetrics", "keyPartners", "requirements"} ->
            IF NoItems(inputs, field)
            THEN [inputs |-> WithField(inputs, field,
                                       CASE field = "keyActivities" -> AssumedActivities
                                         [] field = "keyChallenges" -> AssumedChallenges
                                         [] field = "successMetrics" -> AssumedMetrics
                                         [] field = "keyPartners" -> AssumedPartners
                                         [] field = "requirements" -> AssumedRequirements),
                  assumed |-> TRUE]
            ELSE [inputs |-> inputs, assumed |-> FALSE]
      [] OTHER -> [inputs |-> inputs, assumed |-> FALSE]

\* applyAssumptionsIfRequested(inputs), from blueprint entry i on: the inputs
\* as the loop leaves them and the set of assumed fields
RECURSIVE applyAssumptionsFrom(_, _, _)
applyAssumptionsFrom(i, inputs, assumedFields) ==
    IF i > Len(CLARITY_BLUEPRINT) THEN [inputs |-> inputs, assumedFields |-> assumedFields]
    ELSE LET entry == CLARITY_BLUEPRINT[i]
         IN  IF followUpNeeded(entry.field, inputs)
             THEN LET step == applyAssumptionForField(entry.field, inputs)
                  IN  applyAssumptionsFrom(i + 1, step.inputs,
                                           IF step.assumed THEN assumedFields \cup {entry.field}
                                           ELSE assumedFields)
             ELSE applyAssumptionsFrom(i + 1, inputs, assumedFields)

applyAssumptionsIfRequested(inputs) == applyAssumptionsFrom(1, inputs, {})

\* questionMap.get(field) is defined
Tracked(questions, field) == \E i \in DOMAIN questions : questions[i].field = field

\* questionMap.set(field, {...existing, status})
SetStatus(questions, field, status) ==
    [i \in DOMAIN questions |->
        IF questions[i].field = field THEN [questions[i] EXCEPT !.status = status] ELSE questions[i]]

\* variant: a tracked question whose entry needs no follow-up keeps its status
trackEntry_keepStatus(questions, entry, inputs, assumedFields, uuid) ==
    IF followUpNeeded(entry.field, inputs)
    THEN IF Tracked(questions, entry.field)
         THEN SetStatus(questions, entry.field, "pending")
         ELSE Append(questions, [ id |-> "clarify-" \o entry.field \o "-" \o uuid,
                                  field |-> entry.field,
                                  required |-> entry.required,
                                  status |-> "pending",
                                  timesAsked |-> 0 ])
    ELSE questions

\* the body of the loop over CLARITY_BLUEPRINT of prepareClarifyingQuestions (lines 545-570)
trackEntry(questions, entry, inputs, assumedFields, uuid) ==
    IF followUpNeeded(entry.field, inputs)
    THEN IF Tracked(questions, entry.field)
         THEN SetStatus(questions, entry.field, "pending")
         ELSE Append(questions, [ id |-> "clarify-" \o entry.field \o "-" \o uuid,
                                  field |-> entry.field,
                                  required |-> entry.required,
                                  status |-> "pending",
                                  timesAsked |-> 0 ])
    ELSE IF Tracked(questions, entry.field)
         THEN SetStatus(questions, entry.field,
                        IF entry.field \in assumedFields THEN "assumed" ELSE "answered")
         ELSE questions

\* the loop over CLARITY_BLUEPRINT of prepareClarifyingQuestions (lines 544-571), from entry i on
RECURSIVE trackFrom(_, _, _, _, _)
trackFrom(i, questions, inputs, assumedFields, uuid) ==
    IF i > Len(CLARITY_BLUEPRINT) THEN questions
    ELSE trackFrom(i + 1, trackEntry(questions, CLARITY_BLUEPRINT[i], inputs, assumedFields, uuid),
                   inputs, assumedFields, uuid)

\* the pending questions sorted by blueprint priority (lines 573-583); every
\* tracked field is a blueprint field and priorities are distinct
pendingByPriority(questions) ==
    LET pendingEntries == SelectSeq(CLARITY_BLUEPRINT,
                                    LAMBDA entry : \E i \in DOMAIN questions :
                                                      /\ questions[i].field = entry.field
                                                      /\ questions[i].status = "pending")
    IN  [k \in DOMAIN pendingEntries |->
            questions[CHOOSE i \in DOMAIN questions : questions[i].field = pendingEntries[k].field]]

\* variant: a question is surfaced only the first time
shouldAsk_onlyNew(question) == question.timesAsked = 0

\* variant: every pending question is surfaced
shouldAsk_always(question) == TRUE

\* question.timesAsked === 0 || blueprint.required (lines 589-592)
shouldAsk(question) ==
    question.timesAsked = 0 \/ BLUEPRINT_LOOKUP(question.field).required

\* variant: the loop never breaks
promptFull_never(questionsToAsk) == FALSE

\* questionsToAsk.length >= MAX_QUESTIONS_PER_PROMPT (lines 595-597)
promptFull(questionsToAsk) == Len(questionsToAsk) >= MAX_QUESTIONS_PER_PROMPT

\* the loop that fills questionsToAsk (lines 585-600)
RECURSIVE selectQuestionsToAsk(_, _)
selectQuestionsToAsk(pending, questionsToAsk) ==
    IF pending = <<>> \/ promptFull(questionsToAsk) THEN questionsToAsk
    ELSE LET question == Head(pending)
         IN  IF shouldAsk(question)
             THEN selectQuestionsToAsk(Tail(pending),
                                       Append(questionsToAsk,
                                              [question EXCEPT !.timesAsked = question.timesAsked + 1]))
             ELSE selectQuestionsToAsk(Tail(pending), questionsToAsk)

\* variant: the surfaced questions are not written back to the question map
prepareClarifyingQuestions_noWriteBack(existingQuestions, inputs, assumedFields, uuid) ==
    LET questions == trackFrom(1, existingQuestions, inputs, assumedFields, uuid)
    IN  [ updatedQuestions |-> questions,
          questionsToAsk |-> selectQuestionsToAsk(pendingByPriority(questions), <<>>) ]

\* prepareClarifyingQuestions(existingQuestions, inputs, assumedFields); uuid
\* stands for the values uuidv4() returns in this call
prepareClarifyingQuestions(existingQuestions, inputs, assumedFields, uuid) ==
    LET questions == trackFrom(1, existingQuestions, inputs, assumedFields, uuid)
        questionsToAsk == selectQuestionsToAsk(pendingByPriority(questions), <<>>)
        askedFields == {questionsToAsk[k].field : k \in DOMAIN questionsToAsk}
    IN  [ updatedQuestions |->
              [i \in DOMAIN questions |->
                  IF questions[i].field \in askedFields
                  THEN [questions[i] EXCEPT !.timesAsked = questions[i].timesAsked + 1]
                  ELSE questions[i]],
          questionsToAsk |-> questionsToAsk ]

\* userIntakeNode(state) with content the text of the latest human message:
\* the state update it returns, and what it did
userIntakeNode(state, content, uuid) ==
    LET existingInputs == state.userInputs
        parsedInputs == extractUserInputsFromContent(content)
        mergedInputs == mergeUserInputs(existingInputs, parsedInputs)
        userRequestedAssumptions == didUserRequestAssumptions(content)
        applied == IF userRequestedAssumptions THEN applyAssumptionsIfRequested(mergedInputs)
                   ELSE [inputs |-> mergedInputs, assumedFields |-> {}]
        prepared == prepareClarifyingQuestions(state.clarifyingQuestions, applied.inputs,
                                               applied.assumedFields, uuid)
        asked == [k \in DOMAIN prepared.questionsToAsk |-> prepared.questionsToAsk[k].field]
    IN  [ userInputs |-> applied.inputs,
          clarifyingQuestions |-> prepared.updatedQuestions,
          needsUserIntervention |-> prepared.questionsToAsk # <<>>,
          conceptNoteStage |-> IF prepared.questionsToAsk # <<>> THEN "intake" ELSE "research",
          needed |-> {f \in BlueprintFields : followUpNeeded(f, mergedInputs)},
          assumedFields |-> applied.assumedFields,
          requested |-> userRequestedAssumptions,
          asked |-> asked ]

\* concept-note-state.ts clarifyingQuestions reducer: a Map keyed by id, filled
\* from the items of rest on top of merged
RECURSIVE mergeById(_, _)
mergeById(merged, rest) ==
    IF rest = <<>> THEN merged
    ELSE LET question == Head(rest)
             next == IF \E i \in DOMAIN merged : merged[i].id = question.id
                     THEN [i \in DOMAIN merged |->
                              IF merged[i].id = question.id THEN question ELSE merged[i]]
                     ELSE Append(merged, question)
         IN  mergeById(next, Tail(rest))

\* the reducer of userInputs: (state, update) => ({ ...state, ...update })
mergeInputsReducer(state, update) ==
    [f \in DOMAIN state \cup DOMAIN update |-> IF f \in DOMAIN update THEN update[f] ELSE state[f]]

\* variant: the update is appended to the state
clarifyingQuestionsReducer_append(state, update) == state \o update

\* the reducer of clarifyingQuestions: (state, update) => merged by id
clarifyingQuestionsReducer(state, update) == mergeById(mergeById(<<>>, state), update)

\* customOptions.userInputs of createConceptNoteInput: none, or an audience
InitialInputs == {NoInputs, WithField(NoInputs, "targetAudience", "donors")}

IntakeInit ==
    /\ ThreadInit
    /\ GraphIdle
    /\ path = "catalog"
    /\ ScoreIdle
    /\ PlanIdle
    /\ MergeIdle
    /\ userInputs \in InitialInputs
    /\ clarifyingQuestions = <<>>
    /\ conceptNoteStage = "intake"
    /\ intakeOut = NoIntakeOut
    /\ intakeTurns = 0

\* userIntakeNode run before any human message: lines 138-150
IntakeWithoutMessage ==
    /\ conceptNoteStage = "intake"
    /\ intakeTurns = 0
    /\ intakeTurns' = 1
    /\ intakeOut' = [NoIntakeOut EXCEPT !.kind = "no_user_input", !.needsUserIntervention = TRUE]
    /\ UNCHANGED <<userInputs, clarifyingQuestions, conceptNoteStage>>
    /\ UNCHANGED <<sessionVars, catalogVars, scoreVars, planVars, mergeVars, graphVars>>

\* a human message arrives and the graph runs userIntakeNode (the stage is intake)
IntakeTurn ==
    /\ conceptNoteStage = "intake"
    /\ intakeTurns < MaxIntakeTurns
    /\ \E content \in IntakeContents :
         \E result \in {userIntakeNode([userInputs |-> userInputs,
                                        clarifyingQuestions |-> clarifyingQuestions], content,
                                       ToString(intakeTurns + 1))} :
            /\ userInputs' = mergeInputsReducer(userInputs, result.userInputs)
            /\ clarifyingQuestions' = clarifyingQuestionsReducer(clarifyingQuestions,
                                                                 result.clarifyingQuestions)
            /\ conceptNoteStage' = result.conceptNoteStage
            /\ intakeOut' = [ kind |-> IF result.needsUserIntervention THEN "clarify_requirements"
                                       ELSE "confirmed",
                              ran |-> TRUE,
                              priorNone |-> userInputs = NoInputs /\ clarifyingQuestions = <<>>,
                              requested |-> result.requested,
                              needed |-> result.needed,
                              assumed |-> result.assumedFields,
                              asked |-> result.asked,
                              untracked |-> {f \in BlueprintFields : ~Tracked(clarifyingQuestions, f)},
                              needsUserIntervention |-> result.needsUserIntervention,
                              surfaced |-> [f \in DOMAIN intakeOut.surfaced \cup Range(result.asked) |->
                                              (IF f \in DOMAIN intakeOut.surfaced
                                               THEN intakeOut.surfaced[f] ELSE 0)
                                              + (IF f \in Range(result.asked) THEN 1 ELSE 0)] ]
    /\ intakeTurns' = intakeTurns + 1
    /\ UNCHANGED <<sessionVars, catalogVars, scoreVars, planVars, mergeVars, graphVars>>

IntakeNext == IntakeWithoutMessage \/ IntakeTurn

IntakeSpec == IntakeInit /\ [][IntakeNext]_vars

-----------------------------------------------------------------------------
(* concept-note-graph.ts: the compiled graph. One step per node run; the      *)
(* thread pauses at the interrupt points and is either continued (the next    *)
(* node runs) or invoked again with an input, which enters at START.          *)

\* the messages of a thread of the graph
GraphContents == {DescText, ShortDescText, OkText, DetailsText}

\* reducer of conceptNoteStage: update ?? state ?? "intake" (the channel is
\* never undefined, its default is "intake")
conceptNoteStageReducer(state, update) == IF update # Undefined THEN update ELSE state

\* reducer of needsUserIntervention: update ?? state ?? false, for an update
\* that carries the flag (every update of the graph does)
needsUserInterventionReducer(state, update) == update

\* routeConceptNoteFlow(state); END is written "END"
routeConceptNoteFlow(state) ==
    IF state.needsUserIntervention THEN "waitForUser"
    ELSE CASE state.conceptNoteStage = "intake" -> "userIntake"
           [] state.conceptNoteStage = "research" -> "research"
           [] state.conceptNoteStage = "compute" -> "compute"
           [] state.conceptNoteStage = "draft" -> "draftGenerator"
           [] state.conceptNoteStage = "review" -> "review"
           [] state.conceptNoteStage = "export" -> "export"
           [] state.conceptNoteStage = "completed" -> "END"
           [] OTHER -> "userIntake"

\* compile({ interruptBefore, interruptAfter })
interruptBefore == {"research", "draftGenerator", "review", "export"}
interruptAfter == {"userIntake", "compute"}

\* MISSING_DATA_DECISION_TABLE, in its order
MISSING_DATA_DECISION_TABLE ==
    << [missingField |-> "title", decisionAction |-> "prompt_user",
        criticalityLevel |-> "high", defaultValue |-> Undefined],
       [missingField |-> "description", decisionAction |-> "prompt_user",
        criticalityLevel |-> "high", defaultValue |-> Undefined],
       [missingField |-> "targetAudience", decisionAction |-> "make_assumption",
        criticalityLevel |-> "medium", defaultValue |-> "General stakeholders"],
       [missingField |-> "budget", decisionAction |-> "skip_section",
        criticalityLevel |-> "medium", defaultValue |-> Undefined],
       [missingField |-> "timeline", decisionAction |-> "make_assumption",
        criticalityLevel |-> "low", defaultValue |-> "6-12 months"],
       [missingField |-> "scope", decisionAction |-> "make_assumption",
        criticalityLevel |-> "low", defaultValue |-> "Local/Regional"] >>

\* handleMissingData(state), from entry i of the table on: whether the user is
\* prompted, and state.userInputs as the loop has written it (it assigns the
\* default values to the object it was handed)
RECURSIVE handleMissingData(_, _)
handleMissingData(i, inputs) ==
    IF i > Len(MISSING_DATA_DECISION_TABLE)
    THEN [needsIntervention |-> FALSE, userInputs |-> inputs]
    ELSE LET decision == MISSING_DATA_DECISION_TABLE[i]
         IN  IF ~Falsy(inputs, decision.missingField)
             THEN handleMissingData(i + 1, inputs)
             ELSE IF decision.decisionAction = "prompt_user" /\ decision.criticalityLevel = "high"
             THEN [needsIntervention |-> TRUE, userInputs |-> inputs]
             ELSE IF decision.decisionAction = "make_assumption"
             THEN handleMissingData(i + 1, WithField(inputs, decision.missingField,
                                                     decision.defaultValue))
             ELSE handleMissingData(i + 1, inputs)

\* researchNode(state): the update it returns (conceptNoteStage,
\* needsUserIntervention) and the userInputs object it wrote to
researchNode(state) ==
    LET missingDataHandling == handleMissingData(1, state.userInputs)
    IN  IF missingDataHandling.needsIntervention
        THEN [ needsUserIntervention |-> TRUE, conceptNoteStage |-> "research",
               userInputs |-> missingDataHandling.userInputs ]
        ELSE [ needsUserIntervention |-> FALSE, conceptNoteStage |-> "compute",
               userInputs |-> missingDataHandling.userInputs ]

\* what a node that throws leaves behind: the error and no update
ReferenceError == [threw |-> TRUE, name |-> "ReferenceError"]

\* computeNode(_state, _config): its first statement after the log, `void config`
\* (compute.ts line 17), names an identifier that is not declared, so every
\* call rejects before the try block is entered
computeNode(state) == ReferenceError

\* waitForUserNode(_state): `void state` (line 55) names an identifier that is
\* not declared, so every call rejects and the update of lines 60-64 is never
\* returned
waitForUserNode(state) == ReferenceError

\* the channels of the thread after a node's update went through the reducers
GraphState == [ userInputs |-> userInputs, clarifyingQuestions |-> clarifyingQuestions,
                conceptNoteStage |-> conceptNoteStage,
                needsUserIntervention |-> needsUserIntervention ]

\* a node returned update: the stage and intervention channels take it and the
\* conditional edge of the node picks the next node
ApplyUpdate(node, update) ==
    LET stage == conceptNoteStageReducer(conceptNoteStage, update.conceptNoteStage)
        needs == needsUserInterventionReducer(needsUserIntervention, update.needsUserIntervention)
    IN  /\ conceptNoteStage' = stage
        /\ needsUserIntervention' = needs
        /\ nextNode' = routeConceptNoteFlow([conceptNoteStage |-> stage,
                                             needsUserIntervention |-> needs])
        /\ graphOut' = [ node |-> node, stageBefore |-> conceptNoteStage,
                         reentered |-> graphOut.node = "START" /\ graphOut.reentered,
                         threw |-> FALSE ]
        /\ nodeRun' = NodeIdle

\* a node threw: its superstep writes nothing, the invocation rejects and the
\* thread keeps the checkpoint it had, with the node still to run
NodeThrew(node, error) ==
    /\ error.threw
    /\ graphOut' = [ node |-> node, stageBefore |-> conceptNoteStage, reentered |-> FALSE,
                     threw |-> TRUE ]
    /\ UNCHANGED <<conceptNoteStage, needsUserIntervention, nextNode, nodeRun>>

GraphInit ==
    /\ ThreadInit
    /\ path = "catalog"
    /\ ScoreIdle
    /\ PlanIdle
    /\ MergeIdle
    /\ IntakeIdle
    /\ GraphIdle

\* customOptions of createConceptNoteInput: none, or userInputs known beforehand
NoOptions == [given |-> FALSE]
CustomOptions == {NoOptions} \cup {[given |-> TRUE, userInputs |-> i] : i \in InitialInputs}

\* createConceptNoteInput(userMessage, customOptions): the input of a new
\* thread; keys: the keys the object holds
createConceptNoteInput(userMessage, customOptions) ==
    [ keys |-> {"messages", "conceptNoteStage", "needsUserIntervention", "userInputs"},
      message |-> userMessage,
      conceptNoteStage |-> "intake",
      needsUserIntervention |-> FALSE,
      userInputs |-> IF customOptions.given THEN customOptions.userInputs ELSE NoInputs ]

\* the input is written to the channels of the thread and the run enters at START
EnterAtStart(input, reentered) ==
    /\ graphMessage' = IF "messages" \in input.keys THEN input.message ELSE graphMessage
    /\ conceptNoteStage' = IF "conceptNoteStage" \in input.keys
                           THEN conceptNoteStageReducer(conceptNoteStage, input.conceptNoteStage)
                           ELSE conceptNoteStage
    /\ needsUserIntervention' = needsUserInterventionReducer(needsUserIntervention,
                                                             input.needsUserIntervention)
    /\ userInputs' = IF "userInputs" \in input.keys
                     THEN mergeInputsReducer(userInputs, input.userInputs)
                     ELSE userInputs
    /\ nextNode' = "userIntake"
    /\ graphOut' = [ node |-> "START", stageBefore |-> conceptNoteStage,
                     reentered |-> reentered, threw |-> FALSE ]
    /\ UNCHANGED nodeRun

\* conceptNoteGraph.invoke(createConceptNoteInput(userMessage, customOptions), config)
\* on a new thread, by a caller of the helper
GraphInvoke ==
    /\ nextNode = "none"
    /\ run.pc = "idle"
    /\ \E content \in GraphContents, customOptions \in CustomOptions :
          EnterAtStart(createConceptNoteInput(content, customOptions), FALSE)
    /\ UNCHANGED <<clarifyingQuestions, intakeOut, intakeTurns>>
    /\ UNCHANGED <<sessionVars, catalogVars, scoreVars, planVars, mergeVars>>

\* conceptNoteAction up to its await (lines 15-32).  The main graph is run on
\* the thread, with a user message or without one (the quick action), and its
\* node takes the text of the first human message of state._messages, which
\* is the only one this thread holds, or the default text, and invokes the
\* concept-note graph with it on a thread of its own
ConceptNoteActionCall ==
    /\ nextNode = "none"
    /\ run.pc = "idle"
    /\ \E content \in GraphContents \cup {Undefined} :
          /\ latestHuman' = IF content # Undefined THEN HumanMessage(TRUE, content, msgCount)
                            ELSE latestHuman
          /\ msgCount' = IF content # Undefined THEN msgCount + 1 ELSE msgCount
          /\ LET userContent == IF content # Undefined THEN content ELSE DefaultConceptText
             IN  EnterAtStart(createConceptNoteInput(userContent, NoOptions), FALSE)
    /\ run' = [IdleRun EXCEPT !.pc = "conceptNoteGraph.invoke", !.isNew = TRUE]
    /\ out' = NoOut
    /\ UNCHANGED <<path, docsState, artifact, now, readySaid, handled>>
    /\ UNCHANGED <<clarifyingQuestions, intakeOut, intakeTurns>>
    /\ UNCHANGED <<catalogVars, scoreVars, planVars, mergeVars>>

\* conceptNoteAction(state, config) from its await on: conceptNoteResult is
\* what the invocation resolved with (invoked) or it rejected; the update the
\* node returns to the main thread
conceptNoteAction(state, invoked, conceptNoteResult) ==
    IF ~invoked
    THEN [ kind |-> "error", artifact |-> state.artifact,
           messages |-> << [kind |-> "concept-note-error", questionId |-> Undefined,
                            missing |-> <<>>] >> ]
    ELSE [ kind |-> "initiation",
           artifact |-> IF conceptNoteResult.artifact.produced THEN conceptNoteResult.artifact
                        ELSE state.artifact,
           messages |-> << [kind |-> "concept-note-init", questionId |-> Undefined,
                            missing |-> <<>>] >> ]

\* the invocation made by conceptNoteAction has come to the interrupt after
\* userIntake and resolves with the values of the thread, which hold no
\* artifact, or it rejects; the node's update is applied to the main thread
ConceptNoteActionReturn ==
    /\ run.pc = "conceptNoteGraph.invoke"
    /\ graphOut.node = "userIntake"
    /\ \E invoked \in BOOLEAN :
         \E result \in {conceptNoteAction(State, invoked, [artifact |-> NoArtifact])} :
            /\ artifact' = result.artifact
            /\ msgCount' = msgCount + Len(result.messages)
            /\ out' = [NoOut EXCEPT !.handler = "conceptNoteAction", !.kind = result.kind,
                                    !.isNew = run.isNew, !.messages = result.messages]
    /\ now' = now + 1
    /\ run' = IdleRun
    /\ UNCHANGED <<path, latestHuman, docsState, readySaid, handled>>
    /\ UNCHANGED <<catalogVars, fnVars>>

\* the thread can be entered again: no node is under way, and it stands at an
\* interrupt point or at END, or its last invocation rejected
Paused ==
    /\ nodeRun.pc = "idle"
    /\ \/ nextNode = "END"
       \/ nextNode \in interruptBefore
       \/ graphOut.node \in interruptAfter
       \/ graphOut.threw

\* updatedInputs of resumeConceptNoteGeneration: none, an audience and a scope, a budget
NoUpdate == [given |-> FALSE]
UpdatedInputs ==
    { NoUpdate,
      [given |-> TRUE,
       userInputs |-> WithField(WithField(NoInputs, "targetAudience", "donors"),
                                "scope", "Rural/Regional")],
      [given |-> TRUE, userInputs |-> WithField(NoInputs, "budget", "250000 USD")] }

\* resumeConceptNoteGeneration(currentState, userResponse, updatedInputs): the
\* input it builds; keys: the keys it sets (interventionContext, set to
\* undefined, is not modelled)
resumeConceptNoteGeneration(currentState, userResponse, updatedInputs) ==
    [ keys |-> {"needsUserIntervention"}
                 \cup (IF userResponse # Undefined THEN {"messages"} ELSE {})
                 \cup (IF updatedInputs.given THEN {"userInputs"} ELSE {}),
      message |-> userResponse,
      needsUserIntervention |-> FALSE,
      userInputs |-> IF updatedInputs.given
                     THEN mergeInputsReducer(currentState.userInputs, updatedInputs.userInputs)
                     ELSE NoInputs ]

\* conceptNoteGraph.invoke(resumeConceptNoteGeneration(currentState, userResponse,
\* updatedInputs), config) on the thread: the input enters at START
GraphReenter ==
    /\ Paused
    /\ run.pc = "idle"
    /\ intakeTurns < MaxGraphIntakeRuns
    /\ \E userResponse \in GraphContents \cup {Undefined}, updatedInputs \in UpdatedInputs :
          EnterAtStart(resumeConceptNoteGeneration(GraphState, userResponse, updatedInputs), TRUE)
    /\ UNCHANGED <<clarifyingQuestions, intakeOut, intakeTurns>>
    /\ UNCHANGED <<sessionVars, catalogVars, scoreVars, planVars, mergeVars>>

UserIntakeStep ==
    /\ nextNode = "userIntake"
    /\ intakeTurns < MaxGraphIntakeRuns
    /\ \E result \in {userIntakeNode(GraphState, graphMessage, ToString(intakeTurns + 1))} :
          /\ userInputs' = mergeInputsReducer(userInputs, result.userInputs)
          /\ clarifyingQuestions' = clarifyingQuestionsReducer(clarifyingQuestions,
                                                               result.clarifyingQuestions)
          /\ ApplyUpdate("userIntake", result)
    /\ intakeTurns' = intakeTurns + 1
    /\ UNCHANGED <<intakeOut, graphMessage>>
    /\ UNCHANGED <<sessionVars, catalogVars, scoreVars, planVars, mergeVars>>

\* the thread is continued from its interrupt by whoever holds its id, which
\* conceptNoteAction gives away to nobody while its invocation is under way
Continued == run.pc = "idle"

\* the calls researchNode awaits inside its try block, in their order, each
\* with the inputs that must be there for the call to be made
researchCalls ==
    << [pc |-> "researchBestPractices", needs |-> {"description"}],
       [pc |-> "researchCaseStudies", needs |-> {"title", "description"}],
       [pc |-> "researchCompliance", needs |-> {"scope"}] >>

\* the place in researchCalls of the first call from place i on that the
\* inputs allow, 0 when none is left
RECURSIVE nextResearchCall(_, _)
nextResearchCall(inputs, i) ==
    IF i > Len(researchCalls) THEN 0
    ELSE IF \A f \in researchCalls[i].needs : ~Falsy(inputs, f) THEN i
    ELSE nextResearchCall(inputs, i + 1)

\* researchNode goes on after an await: to the next call the inputs allow,
\* from place i of researchCalls on, or to its return with the update
ResearchGoesOn(i) ==
    LET j == nextResearchCall(nodeRun.userInputs, i)
    IN  IF j = 0
        THEN ApplyUpdate("research", nodeRun)
        ELSE /\ nodeRun' = [nodeRun EXCEPT !.pc = researchCalls[j].pc]
             /\ UNCHANGED <<conceptNoteStage, needsUserIntervention, nextNode, graphOut>>

\* compute.ts lines 450-461: researchNode is entered and calls
\* handleMissingData, which runs to its end before the node is suspended at
\* the await: the default values it assigned to state.userInputs reach the
\* channel or not (the node does not return them)
ResearchStep ==
    /\ nextNode = "research"
    /\ nodeRun.pc = "idle"
    /\ Continued
    /\ \E result \in {researchNode(GraphState)}, kept \in BOOLEAN :
          /\ userInputs' = IF kept THEN result.userInputs ELSE userInputs
          /\ nodeRun' = [ pc |-> "handleMissingData",
                          needsUserIntervention |-> result.needsUserIntervention,
                          conceptNoteStage |-> result.conceptNoteStage,
                          userInputs |-> result.userInputs ]
    /\ UNCHANGED <<conceptNoteStage, needsUserIntervention, nextNode, graphOut>>
    /\ UNCHANGED <<clarifyingQuestions, intakeOut, intakeTurns, graphMessage>>
    /\ UNCHANGED <<sessionVars, catalogVars, scoreVars, planVars, mergeVars>>

\* compute.ts lines 461-480: `await handleMissingData(state)` returns.  When
\* the user must be prompted the node returns at once, the stage staying
\* research; else it goes on to its research calls
ResearchHandled ==
    /\ nodeRun.pc = "handleMissingData"
    /\ IF nodeRun.needsUserIntervention
       THEN ApplyUpdate("research", nodeRun)
       ELSE ResearchGoesOn(1)
    /\ UNCHANGED <<userInputs, clarifyingQuestions, intakeOut, intakeTurns, graphMessage>>
    /\ UNCHANGED <<sessionVars, catalogVars, scoreVars, planVars, mergeVars>>

\* compute.ts lines 480-538: a research call returns and the node goes on, or
\* it throws into the catch block, after which the node returns its update
ResearchAwait ==
    /\ \E i \in DOMAIN researchCalls :
          /\ nodeRun.pc = researchCalls[i].pc
          /\ \E ok \in BOOLEAN :
                IF ok THEN ResearchGoesOn(i + 1) ELSE ApplyUpdate("research", nodeRun)
    /\ UNCHANGED <<userInputs, clarifyingQuestions, intakeOut, intakeTurns, graphMessage>>
    /\ UNCHANGED <<sessionVars, catalogVars, scoreVars, planVars, mergeVars>>

\* computeNode runs and throws
ComputeStep ==
    /\ nextNode = "compute"
    /\ Continued
    /\ NodeThrew("compute", computeNode(GraphState))
    /\ UNCHANGED <<userInputs, clarifyingQuestions, intakeOut, intakeTurns, graphMessage>>
    /\ UNCHANGED <<sessionVars, catalogVars, scoreVars, planVars, mergeVars>>

\* waitForUserNode runs and throws
WaitForUserStep ==
    /\ nextNode = "waitForUser"
    /\ Continued
    /\ NodeThrew("waitForUser", waitForUserNode(GraphState))
    /\ UNCHANGED <<userInputs, clarifyingQuestions, intakeOut, intakeTurns, graphMessage>>
    /\ UNCHANGED <<sessionVars, catalogVars, scoreVars, planVars, mergeVars>>

\* draftGenerator, review and export stand behind compute: no run reaches them
GraphNext ==
    \/ GraphInvoke
    \/ ConceptNoteActionCall
    \/ ConceptNoteActionReturn
    \/ GraphReenter
    \/ UserIntakeStep
    \/ ResearchStep
    \/ ResearchHandled
    \/ ResearchAwait
    \/ ComputeStep
    \/ WaitForUserStep

GraphSpec == GraphInit /\ [][GraphNext]_vars

-----------------------------------------------------------------------------
(* Properties *)

RequiredIds(session) ==
    {Definition(session).required_fields[i].id : i \in DOMAIN Definition(session).required_fields}

\* the required fields that hold a non-blank value, as each path records them
\* (the catalog path reads dossier, the chat path reads answers)
FilledRequired(session) ==
    {f \in RequiredIds(session) :
        \/ NonBlank(session.dossier, f)
        \/ (f \in DOMAIN session.answers /\ Trim(session.answers[f].value) # "")}

\* a step in which the handler ran again on the message it had already put
\* through the session's processing
SecondProcessing ==
    /\ now' = now + 1
    /\ latestHuman' = latestHuman
    /\ handled
    /\ out'.hadSession
    /\ docsState.defined
    /\ docsState'.defined

\* C1: processing the same message a second time leaves answers, dossier and
\* pendingQuestions of the session as they were, on both paths
C1_Idempotent ==
    [][ SecondProcessing =>
          /\ docsState'.answers = docsState.answers
          /\ docsState'.dossier = docsState.dossier
          /\ docsState'.pendingQuestions = docsState.pendingQuestions ]_vars

\* a second run on an answer text, on a session that holds answers and still has questions
C1_Witness ==
    /\ handled
    /\ ~out.isNew
    /\ out.hadSession
    /\ out.listed
    /\ latestHuman.content = AnswerText
    /\ docsState.defined
    /\ docsState.answers # EmptyMap
    /\ docsState.pendingQuestions # <<>>

\* C2: once readyToGenerate is true, no later run on the session sets it back to false
C2_ReadyMonotonic ==
    [][ (docsState.defined /\ docsState.readyToGenerate /\ docsState'.defined)
           => docsState'.readyToGenerate ]_vars

\* a new message that is no readiness signal was processed on a session already ready
C2_Witness ==
    /\ out.wasReady
    /\ out.isNew
    /\ out.processed
    /\ latestHuman.content = AnswerText
    /\ docsState.defined
    /\ docsState.readyToGenerate

\* C3: whenever readyToGenerate is true, every required field has a non-blank
\* value or a processed message matched a readiness pattern
C3_ReadyOnlyWhenCompleteOrSaid ==
    (docsState.defined /\ docsState.readyToGenerate)
       => (FilledRequired(docsState) = RequiredIds(docsState) \/ readySaid)

\* a new message matching a readiness pattern is handled for a session that
\* was active when the turn began
ReadyUtteranceTurn ==
    /\ docsState.defined /\ docsState.active
    /\ now' = now + 1
    /\ out'.isNew /\ out'.hadSession
    /\ detectReadyIntent(latestHuman'.content)

\* C4: for any active session, on either path, the turn that handles a new
\* message matching a readiness pattern leaves the session readyToGenerate
\* (or has rendered its artifact), however few required fields are filled
C4_ReadyUtteranceForces ==
    [][ ReadyUtteranceTurn
          => \/ docsState'.defined /\ docsState'.readyToGenerate
             \/ out'.kind = "artifact" ]_vars

\* on the chat path the readiness pattern does raise the flag in that turn
ReadyUtteranceForcesOnChatPath ==
    [][ (path = "chat" /\ ReadyUtteranceTurn)
          => (docsState'.defined /\ docsState'.readyToGenerate) ]_vars

\* C5: a message that has just arrived is always put through processing by the
\* session handling it, and a message whose identity is listed is not
C5_ProcessedExactlyOnce ==
    /\ (out.hadSession /\ out.isNew) => out.processed
    /\ (out.hadSession /\ out.listed) => ~out.processed

\* C6: concurrent first calls read the catalog source once and all callers get the same map
C6_SingleLoad ==
    /\ reads <= 1
    /\ \A c, d \in 1..MaxCallers :
          (callers[c].pc = "done" /\ callers[d].pc = "done") => callers[c].result = callers[d].result

\* C7: after an artifact has been produced for a ready session, the session is
\* cleared or no longer active
C7_DeactivatedAfterArtifact ==
    out.kind = "artifact" => ~(docsState.defined /\ docsState.active)

\* C8: a turn handled for a session that stays not ready emits a message
C8_NoSilentTurn ==
    (out.isNew /\ out.hadSession /\ docsState.defined /\ ~docsState.readyToGenerate)
       => out.messages # <<>>

\* dossier holds the current value of every recorded answer
DossierMirrorsAnswers(session) ==
    \A f \in DOMAIN session.answers :
        f \in DOMAIN session.dossier /\ session.dossier[f] = session.answers[f].value

\* C9: in every session state dossier holds, for each field with an AnswerRecord,
\* that record's current value
C9_DossierFlattensAnswers ==
    docsState.defined => DossierMirrorsAnswers(docsState)

\* C10: a run on a session neither removes nor blanks a recorded answer, and
\* changes its value only when the turn supplied a value for that field
C10_AnswersKept ==
    [][ (now' = now + 1 /\ docsState.defined /\ docsState'.defined)
          => \A f \in DOMAIN docsState.answers :
                Trim(docsState.answers[f].value) # ""
                  => /\ f \in DOMAIN docsState'.answers
                     /\ Trim(docsState'.answers[f].value) # ""
                     /\ (docsState'.answers[f].value = docsState.answers[f].value
                           \/ f \in out'.supplied) ]_vars

\* a processed turn supplied one field while another field kept its earlier answer
C10_Witness ==
    /\ out.processed
    /\ out.supplied # {}
    /\ docsState.defined
    /\ \E f \in DOMAIN docsState.answers :
          f \notin out.supplied /\ Trim(docsState.answers[f].value) # ""

\* field f holds a non-blank value in the session (as an answer or in the dossier)
HasValue(session, f) ==
    \/ NonBlank(session.dossier, f)
    \/ (f \in DOMAIN session.answers /\ Trim(session.answers[f].value) # "")

\* field f holds an answer recorded by the run that just ended
RecordedThisTurn(session, f) ==
    /\ f \in DOMAIN session.answers
    /\ Trim(session.answers[f].value) # ""
    /\ session.answers[f].timestamps # <<>>
    /\ session.answers[f].timestamps[Len(session.answers[f].timestamps)] = now

\* C11: when the previous turn asked a pending question and a new non-blank
\* message that is no readiness signal arrives, every target of that question
\* holds an answer recorded from this turn, whatever the extractor returned
C11_AnswerGoesToAskedQuestion ==
    ( /\ out.isNew
      /\ out.hadSession
      /\ out.askedTargets # {}
      /\ Trim(latestHuman.content) # ""
      /\ ~detectReadyIntent(latestHuman.content)
      /\ docsState.defined )
       => \A f \in out.askedTargets : RecordedThisTurn(docsState, f)

\* C12: after a processed message no pending question has all of its targets filled
C12_NoAnsweredQuestionPending ==
    (out.processed /\ docsState.defined)
       => \A i \in DOMAIN docsState.pendingQuestions :
             \E t \in DOMAIN docsState.pendingQuestions[i].targets :
                ~HasValue(docsState, docsState.pendingQuestions[i].targets[t])

\* C13: once a new message has been processed, the lastAskedQuestionId left by
\* the previous turn is cleared, whether the message was an answer, blank or a
\* readiness signal
C13_LastAskedCleared ==
    (out.isNew /\ out.processed /\ out.askedTargets # {}) => out.askedAfter = Undefined

\* no dossier value and no answer of the session is a placeholder
NoPlaceholders(session) ==
    /\ \A k \in DOMAIN session.dossier : ~IsPlaceholder(session.dossier[k])
    /\ \A k \in DOMAIN session.answers : ~IsPlaceholder(session.answers[k].value)

\* C14: a session with every required field filled, no citations and no
\* placeholders is readyToGenerate only after a readiness utterance
C14_CompleteButUncitedNeedsUtterance ==
    ( /\ docsState.defined
      /\ FilledRequired(docsState) = RequiredIds(docsState)
      /\ docsState.citations = <<>>
      /\ NoPlaceholders(docsState)
      /\ docsState.readyToGenerate )
       => readySaid

\* C15: on the catalog path, a turn that starts with every required field
\* already answered renders the artifact
C15_CoveredSessionRenders ==
    [][ ( /\ path = "catalog"
          /\ docsState.defined
          /\ FilledRequired(docsState) = RequiredIds(docsState)
          /\ now' = now + 1
          /\ out'.isNew )
           => out'.kind \in {"artifact", "renderError"} ]_vars

C19_SessionReadyAfterRenderFailure ==
    out.kind = "renderError"
       => /\ docsState.defined
          /\ docsState.readyToGenerate
          /\ FilledRequired(docsState) = RequiredIds(docsState)

\* every target of every diagnostic question is a declared field of the definition
TargetsDeclared(definition) ==
    \A q \in DOMAIN definition.diagnostic_questions :
       \A t \in DOMAIN definition.diagnostic_questions[q].targets :
          \E kind \in {"required_fields", "optional_fields"} :
             \E i \in DOMAIN definition[kind] :
                definition[kind][i].id = definition.diagnostic_questions[q].targets[t]

CatalogWellFormed(catalog) ==
    catalog.loaded => \A id \in DOMAIN catalog.entries : TargetsDeclared(catalog.entries[id])

\* C16: no catalog holding a question with an undeclared target is cached or
\* returned to a caller
C16_UndeclaredTargetRejected ==
    /\ CatalogWellFormed(cachedCatalog)
    /\ \A c \in 1..MaxCallers : CatalogWellFormed(callers[c].result)

\* C17: a run that asks for a document type the catalog lacks, and finds the
\* catalog loaded or loads it, ends with the unknown-document-type error and
\* leaves the thread without a session
C17_UnknownDocTypeFails ==
    (out.requestedType # Undefined /\ out.requestedType \notin DOMAIN Catalog /\ ~out.loadFailed)
       => (out.kind = "unknownDocType" /\ ~docsState.defined)

\* required field i of the scored definition has a non-blank dossier value
ScoreFilled(i) ==
    LET id == scoreInput.definition.required_fields[i].id
    IN  id \in DOMAIN scoreInput.dossier /\ scoreInput.dossier[id] \notin {"", BlankText}

\* completeness is in [0,1]; it is 1 exactly when there are required fields and
\* all are filled; it is 0 exactly when none is filled (or there is none)
CompletenessAsClaimed ==
    LET required == scoreInput.definition.required_fields
        c == scoreReport.completeness
    IN  /\ 0 <= c.num /\ c.num <= c.den
        /\ (c.num = c.den) <=> (required # <<>> /\ \A i \in DOMAIN required : ScoreFilled(i))
        /\ (c.num = 0) <=> (\A i \in DOMAIN required : ~ScoreFilled(i))

\* C20 as stated: for field weights >= 0, completeness is in [0,1], is 1 iff
\* every required field is non-blank and is 0 iff none is or there is none
C20_CompletenessAnyWeight ==
    scoreReport.done => CompletenessAsClaimed

\* C20 amended: the same, for definitions whose required fields all have a
\* weight greater than 0
C20_CompletenessPositiveWeight ==
    ( /\ scoreReport.done
      /\ \A i \in DOMAIN scoreInput.definition.required_fields :
            scoreInput.definition.required_fields[i].weight > 0 )
       => CompletenessAsClaimed

\* a report for two positively weighted required fields, one holding a text and
\* the other only blanks
C20_Witness ==
    /\ scoreReport.done
    /\ Len(scoreInput.definition.required_fields) >= 2
    /\ \A i \in DOMAIN scoreInput.definition.required_fields :
          scoreInput.definition.required_fields[i].weight > 0
    /\ ScoreFilled(1)
    /\ ScoreFieldIds[2] \in DOMAIN scoreInput.dossier
    /\ scoreInput.dossier[ScoreFieldIds[2]] = BlankText
    /\ 0 < scoreReport.completeness.num
    /\ scoreReport.completeness.num < scoreReport.completeness.den

\* the raw requirement declared under id in the planned entry, and whether it is required
RawField(id) ==
    LET doc == planInput.doc
        req == {i \in DOMAIN doc.required_fields : doc.required_fields[i].id = id}
    IN  IF req # {} THEN [raw |-> doc.required_fields[CHOOSE i \in req : TRUE], required |-> TRUE]
        ELSE [raw |-> doc.optional_fields[CHOOSE i \in DOMAIN doc.optional_fields :
                                             doc.optional_fields[i].id = id], required |-> FALSE]

\* the weight the planner contract gives a target, times PriorityScale: the
\* declared weight, else 1 for a required field and 0.5 for an optional one
ContractWeight(id) ==
    LET f == RawField(id)
    IN  IF "weight" \in DOMAIN f.raw THEN f.raw.weight * PriorityScale
        ELSE IF f.required THEN PriorityScale ELSE PriorityScale \div 2

\* the sum of the contract weights of the targets of question i
ContractWeightSum(i) ==
    LET targets == planInput.doc.diagnostic_questions[i].targets
    IN  SeqSum([t \in DOMAIN targets |-> ContractWeight(targets[t])])

\* C21: the priority of the question at 0-based index i of a loaded definition
\* is the sum of its target fields' weights plus 1/(1+i), an undeclared weight
\* counting 1 for a required field and 0.5 for an optional one
C21_PriorityFormula ==
    planReport.done =>
        \A i \in DOMAIN planReport.plan :
            planReport.plan[i].priority = ContractWeightSum(i) + (PriorityScale \div i)

\* the weight sum the planner computed for the targets of question i
PlannedWeightSum(i) ==
    LET targets == planReport.definition.diagnostic_questions[i].targets
    IN  SeqSum([t \in DOMAIN targets |-> coverageWeight(planReport.definition, targets[t])])

\* the position of the question with the given id in a list of plan items
PositionOf(items, id) == CHOOSE k \in DOMAIN items : items[k].id = id

\* C22: of two questions with equal target weight sums the one declared
\* earlier has the strictly higher priority and comes first in the plan sorted
\* by priority descending
C22_TieBreakKeepsCatalogOrder ==
    planReport.done =>
        \A i, j \in DOMAIN planReport.plan :
            (i < j /\ PlannedWeightSum(i) = PlannedWeightSum(j))
               => /\ planReport.plan[i].priority > planReport.plan[j].priority
                  /\ PositionOf(planReport.sorted, planReport.plan[i].id)
                       < PositionOf(planReport.sorted, planReport.plan[j].id)

\* a plan of three questions, two of equal weight sum and a heavier one
\* declared after them, which the sort moves to the front
C22_Witness ==
    /\ planReport.done
    /\ Len(planReport.plan) = 3
    /\ PlannedWeightSum(1) = PlannedWeightSum(2)
    /\ PlannedWeightSum(3) > PlannedWeightSum(1) + PriorityScale
    /\ planReport.sorted[1].id = planReport.plan[3].id
    /\ planReport.sorted[2].id = planReport.plan[1].id

\* the ids of the questions a run's messages asked
AskedIds(messages) ==
    {messages[k].questionId : k \in {n \in DOMAIN messages : messages[n].questionId # Undefined}}

\* C23: while a session lives, pendingQuestions holds only items of the plan
\* computed at its creation (id, targets and priority unchanged), each turn
\* leaves a sub-list of the list before it, and every question asked is one
\* that is still pending
C23_PlanOnlyNarrows ==
    [][ /\ docsState'.defined
           => Range(docsState'.pendingQuestions)
                \subseteq Range(materializeQuestionPlan(Definition(docsState')))
        /\ (docsState.defined /\ docsState'.defined)
           => /\ Range(docsState'.pendingQuestions) \subseteq Range(docsState.pendingQuestions)
              /\ Len(docsState'.pendingQuestions) <= Len(docsState.pendingQuestions)
        /\ (docsState'.defined /\ now' = now + 1)
           => AskedIds(out'.messages)
                \subseteq {docsState'.pendingQuestions[k].id : k \in DOMAIN docsState'.pendingQuestions} ]_vars

\* a session that has dropped a question of its plan and whose latest run asked
\* one of those left
C23_Witness ==
    /\ docsState.defined
    /\ Len(docsState.pendingQuestions) < Len(materializeQuestionPlan(Definition(docsState)))
    /\ AskedIds(out.messages) # {}
    /\ AskedIds(out.messages) \subseteq {docsState.pendingQuestions[k].id : k \in DOMAIN docsState.pendingQuestions}

\* the turn taken is an answering turn on the chat path: a new human message,
\* neither blank nor a readiness signal, has arrived while a question of a
\* session that is not yet ready stands asked, and the reply node returns
AnsweringTurn ==
    /\ path = "chat"
    /\ now' = now + 1
    /\ out'.isNew /\ out'.hadSession
    /\ docsState.defined /\ docsState.active /\ ~docsState.readyToGenerate
    /\ docsState.lastAskedQuestionId # Undefined
    /\ Trim(latestHuman'.content) # ""
    /\ ~detectReadyIntent(latestHuman'.content)

\* C24: every answering turn takes a question off the pending list, and the
\* session is ready once none is left, so a plan of n questions is ready after
\* at most n answering turns
C24_AnswersReachReady ==
    [][ AnsweringTurn
          => /\ docsState'.defined
             /\ Len(docsState'.pendingQuestions) < Len(docsState.pendingQuestions)
             /\ docsState'.pendingQuestions = <<>> => docsState'.readyToGenerate ]_vars

\* the items of list field f of inputs; none when the field is undefined
ItemsOf(inputs, f) == IF f \in DOMAIN inputs THEN inputs[f] ELSE <<>>

NoDuplicates(items) == \A i, j \in DOMAIN items : items[i] = items[j] => i = j

\* C25: merging list X and then list Y into a list field gives the same set of
\* items as merging Y and then X, and neither result holds an item twice
C25_ListMergeCommutes ==
    mergeReport.done =>
        LET xy == ItemsOf(mergeReport.xy, mergeInput.field)
            yx == ItemsOf(mergeReport.yx, mergeInput.field)
        IN  /\ Range(xy) = Range(yx)
            /\ NoDuplicates(xy)
            /\ NoDuplicates(yx)

\* a list and a list holding a padded copy of its item and a blank, merged
\* into inputs that already hold another item: both orders give the two items
C25_Witness ==
    /\ mergeReport.done
    /\ mergeInput.existing # NoInputs
    /\ mergeInput.x = <<PlainItem>>
    /\ mergeInput.y = <<PaddedItem, BlankText>>
    /\ ItemsOf(mergeReport.xy, mergeInput.field) = ItemsOf(mergeReport.yx, mergeInput.field)
    /\ Len(ItemsOf(mergeReport.xy, mergeInput.field)) = 2

\* C26: a message that authorizes assumptions, arriving with no prior inputs,
\* gives every blueprint field that needed follow-up its default value: no
\* entry still needs follow-up, no question is surfaced and the intake does
\* not ask for user intervention
C26_AssumptionsAnswerEverything ==
    (intakeOut.ran /\ intakeOut.priorNone /\ intakeOut.requested)
       => /\ intakeOut.needed \subseteq intakeOut.assumed
          /\ \A f \in BlueprintFields : ~followUpNeeded(f, userInputs)
          /\ intakeOut.asked = <<>>
          /\ ~intakeOut.needsUserIntervention

\* the tracked question of field f has the given status
HasStatus(questions, f, status) ==
    \E i \in DOMAIN questions : questions[i].field = f /\ questions[i].status = status

\* C27: every field filled by assumption in a turn has a tracked question of
\* status assumed after the turn, whether or not it was tracked before
C27_AssumedFieldsTracked ==
    intakeOut.ran =>
        \A f \in intakeOut.assumed : HasStatus(clarifyingQuestions, f, "assumed")

\* C28: a turn surfaces at most MAX_QUESTIONS_PER_PROMPT (4) questions
C28_AtMostFourSurfaced ==
    intakeOut.ran => Len(intakeOut.asked) <= 4

\* a turn that surfaced four questions and left further never-asked ones pending
C28_Witness ==
    /\ intakeOut.ran
    /\ Len(intakeOut.asked) = 4
    /\ \E i \in DOMAIN clarifyingQuestions :
          clarifyingQuestions[i].status = "pending" /\ clarifyingQuestions[i].timesAsked = 0

\* how often the question of field f was asked, as the tracked question records it
TimesAsked(questions, f) ==
    IF Tracked(questions, f)
    THEN questions[CHOOSE i \in DOMAIN questions : questions[i].field = f].timesAsked
    ELSE 0

\* C29: a turn surfaces a question only if it was never asked before or its
\* entry is required; so an optional question is surfaced at most once over
\* the thread, and a required question whose entry still needs follow-up is
\* surfaced in every turn
C29_SurfacedOnceUnlessRequired ==
    [][ (intakeTurns' = intakeTurns + 1 /\ intakeOut'.ran)
          => /\ \A f \in Range(intakeOut'.asked) :
                   TimesAsked(clarifyingQuestions, f) = 0 \/ BLUEPRINT_LOOKUP(f).required
             /\ \A f \in DOMAIN intakeOut'.surfaced :
                   ~BLUEPRINT_LOOKUP(f).required => intakeOut'.surfaced[f] <= 1
             /\ \A f \in BlueprintFields :
                   (BLUEPRINT_LOOKUP(f).required /\ followUpNeeded(f, userInputs'))
                      => f \in Range(intakeOut'.asked) ]_vars

\* the third turn of a thread: the description was asked for in each turn, an
\* optional question asked once is still pending and was not surfaced again
C29_Witness ==
    /\ intakeOut.ran
    /\ "description" \in DOMAIN intakeOut.surfaced
    /\ intakeOut.surfaced["description"] = 3
    /\ \E f \in DOMAIN intakeOut.surfaced :
          /\ ~BLUEPRINT_LOOKUP(f).required
          /\ HasStatus(clarifyingQuestions, f, "pending")
          /\ intakeOut.surfaced[f] = 1
          /\ f \notin Range(intakeOut.asked)

\* C30: after a turn every blueprint entry that needs follow-up on the merged
\* inputs has a tracked question of status pending, and every tracked question
\* whose entry needs none has status answered or assumed
C30_StatusMatchesFollowUp ==
    intakeOut.ran =>
        /\ \A f \in BlueprintFields :
              followUpNeeded(f, userInputs) => HasStatus(clarifyingQuestions, f, "pending")
        /\ \A i \in DOMAIN clarifyingQuestions :
              ~followUpNeeded(clarifyingQuestions[i].field, userInputs)
                 => clarifyingQuestions[i].status \in {"answered", "assumed"}

\* tracked questions of all three statuses after a turn
C30_Witness ==
    /\ intakeOut.ran
    /\ \E f \in BlueprintFields : HasStatus(clarifyingQuestions, f, "pending")
    /\ \E f \in BlueprintFields : HasStatus(clarifyingQuestions, f, "answered")
    /\ \E f \in BlueprintFields : HasStatus(clarifyingQuestions, f, "assumed")

\* C31: after every run of the intake node and the reducer's merge, no two
\* tracked clarifying questions are about the same blueprint field
C31_OneQuestionPerField ==
    \A i, j \in DOMAIN clarifyingQuestions :
        clarifyingQuestions[i].field = clarifyingQuestions[j].field => i = j

\* a second turn that kept the questions created in the first turn, asked once
\* already, and created one for a field that needed no follow-up until then
C31_Witness ==
    /\ intakeTurns = 2
    /\ intakeOut.ran
    /\ \E i, j \in DOMAIN clarifyingQuestions :
          /\ clarifyingQuestions[i].id = "clarify-objectives-1"
          /\ clarifyingQuestions[i].timesAsked = 1
          /\ clarifyingQuestions[j].id = "clarify-description-2"

\* C32: a turn raises timesAsked by exactly 1 for every question it surfaces
\* and leaves it as it was for every other tracked question
C32_TimesAskedCountsSurfacing ==
    [][ (intakeTurns' = intakeTurns + 1 /\ intakeOut'.ran)
          => \A f \in BlueprintFields :
                /\ Tracked(clarifyingQuestions, f) => Tracked(clarifyingQuestions', f)
                /\ TimesAsked(clarifyingQuestions', f)
                     = TimesAsked(clarifyingQuestions, f)
                         + (IF f \in Range(intakeOut'.asked) THEN 1 ELSE 0) ]_vars

\* a turn that surfaced a question for the second time while another tracked
\* question, asked once, was not surfaced
C32_Witness ==
    /\ intakeOut.ran
    /\ \E f \in Range(intakeOut.asked) : TimesAsked(clarifyingQuestions, f) = 2
    /\ \E f \in BlueprintFields \ Range(intakeOut.asked) :
          Tracked(clarifyingQuestions, f) /\ TimesAsked(clarifyingQuestions, f) = 1

RequiredBlueprintFields == {"title", "description"}

\* C36: after every run of the intake node in which a required blueprint field
\* still needs follow-up, the stage is still intake and needsUserIntervention is
\* set, and a run on a human message has surfaced the question of that field
C36_RequiredFieldsHoldIntake ==
    [][ intakeTurns' = intakeTurns + 1
          => \A f \in RequiredBlueprintFields :
                followUpNeeded(f, userInputs')
                  => /\ conceptNoteStage' = "intake"
                     /\ intakeOut'.needsUserIntervention
                     /\ intakeOut'.ran => f \in Range(intakeOut'.asked) ]_vars

\* a turn on a human message that surfaced the description question again, no
\* optional question being left to ask, and stayed in intake
C36_Witness ==
    /\ intakeOut.ran
    /\ conceptNoteStage = "intake"
    /\ followUpNeeded("description", userInputs)
    /\ intakeOut.asked = <<"description">>
    /\ TimesAsked(clarifyingQuestions, "description") >= 2

\* the session holds an outstanding question: lastAskedQuestionId is the id of a
\* pending question
QuestionOutstanding(session) ==
    /\ session.defined /\ session.active
    /\ session.lastAskedQuestionId # Undefined
    /\ \E i \in DOMAIN session.pendingQuestions :
          session.pendingQuestions[i].id = session.lastAskedQuestionId

\* a new message that is a readiness signal is handled for the session
ReadySignalTurn ==
    /\ now' = now + 1
    /\ out'.isNew /\ out'.hadSession
    /\ detectReadyIntent(latestHuman'.content)

\* the session after the turn differs from the session before it in nothing
\* but readyToGenerate, processedMessageIds and lastAskedQuestionId
OnlyReadinessFieldsChange ==
    /\ docsState'.defined
    /\ docsState'.answers = docsState.answers
    /\ docsState'.pendingQuestions = docsState.pendingQuestions
    /\ [docsState' EXCEPT !.readyToGenerate = docsState.readyToGenerate,
                          !.processedMessageIds = docsState.processedMessageIds,
                          !.lastAskedQuestionId = docsState.lastAskedQuestionId]
         = docsState

\* C33: on either path, when a question is outstanding and the new message is
\* a readiness signal, answers and pendingQuestions stay as they were and
\* nothing but readyToGenerate, processedMessageIds and lastAskedQuestionId
\* changes (a turn that renders the artifact ends the session and is left aside)
C33_ReadySignalIsNoAnswer ==
    [][ (QuestionOutstanding(docsState) /\ ReadySignalTurn /\ out'.kind # "artifact")
          => OnlyReadinessFieldsChange ]_vars

\* on the chat path a readiness signal is never recorded as the answer to the
\* outstanding question: answers and pendingQuestions stay as they were
ReadySignalKeepsAnswersOnChatPath ==
    [][ (path = "chat" /\ QuestionOutstanding(docsState) /\ ReadySignalTurn)
          => /\ docsState'.defined
             /\ docsState'.answers = docsState.answers
             /\ docsState'.pendingQuestions = docsState.pendingQuestions ]_vars

\* C34: every graph run that starts with an active doc session that is not
\* readyToGenerate is routed to replyToGeneralInput, whatever the message and
\* whatever the routing model would pick; the run ends with that node's reply
\* or with its error and produces no artifact
C34_CollectingRoutesToReply ==
    [][ (path = "chat" /\ now' = now + 1
          /\ docsState.defined /\ docsState.active /\ ~docsState.readyToGenerate)
          => /\ out'.handler = "replyToGeneralInput"
             /\ out'.kind \in {"reply", "error"}
             /\ artifact' = artifact ]_vars

\* a run on an active session that was not ready replied with the next
\* question although the message asked for a document
C34_Witness ==
    /\ path = "chat"
    /\ out.handler = "replyToGeneralInput"
    /\ out.hadSession /\ ~out.wasReady
    /\ out.isNew /\ out.processed
    /\ Len(docsState.processedMessageIds) >= 2
    /\ latestHuman.content = AdrRequestText
    /\ docsState.defined /\ docsState.active /\ ~docsState.readyToGenerate
    /\ docsState.lastAskedQuestionId # Undefined
    /\ ~artifact.produced

\* C37: in the session state returned by replyToGeneralInput, lastAskedQuestionId
\* is undefined when the session is readyToGenerate, and otherwise is undefined
\* or the id of the first pending question
C37_LastAskedIsNextQuestion ==
    (path = "chat" /\ out.handler = "replyToGeneralInput" /\ out.hadSession)
      => IF docsState.readyToGenerate
         THEN docsState.lastAskedQuestionId = Undefined
         ELSE \/ docsState.lastAskedQuestionId = Undefined
              \/ /\ docsState.pendingQuestions # <<>>
                 /\ docsState.lastAskedQuestionId = docsState.pendingQuestions[1].id

\* the message answered the question asked before, which left the pending
\* list, and the session returned names the new first pending question
C37_Witness ==
    /\ path = "chat"
    /\ out.handler = "replyToGeneralInput" /\ out.processed
    /\ out.supplied # {}
    /\ ~docsState.readyToGenerate
    /\ Len(docsState.pendingQuestions) >= 2
    /\ docsState.lastAskedQuestionId = docsState.pendingQuestions[1].id

\* C38: in every session state, on both paths, pendingQuestions is ordered by
\* non-increasing priority
C38_PendingSortedByPriority ==
    docsState.defined
      => \A i, j \in DOMAIN docsState.pendingQuestions :
            i < j => docsState.pendingQuestions[i].priority >= docsState.pendingQuestions[j].priority

\* a session whose plan is not in priority order as the catalog lists it (the
\* ADR plan: q_context 48, q_decision 60) has processed a message and still
\* holds both questions, the one of higher priority first
C38_Witness ==
    /\ docsState.defined
    /\ out.processed
    /\ materializeQuestionPlan(Definition(docsState))
         # sortQuestionsByPriority(materializeQuestionPlan(Definition(docsState)))
    /\ Len(docsState.pendingQuestions) = 2
    /\ docsState.pendingQuestions[1].priority > docsState.pendingQuestions[2].priority

\* a load that fails leaves cachedCatalog as it was, and a call that finds the
\* cache unset issues a read
FailedLoadIsRetried ==
    \A c \in 1..MaxCallers :
        /\ (callers[c].pc = "reading" /\ callers'[c].pc = "failed") => cachedCatalog' = cachedCatalog
        /\ (callers[c].pc = "idle" /\ callers'[c].pc # "idle" /\ ~cachedCatalog.loaded)
              => (callers'[c].pc = "reading" /\ reads' = reads + 1)

\* a call that finds the cache set returns it and reads nothing
CacheHitReadsNothing ==
    \A c \in 1..MaxCallers :
        (callers[c].pc = "idle" /\ callers'[c].pc # "idle" /\ cachedCatalog.loaded)
          => /\ callers'[c].pc = "done"
             /\ callers'[c].result = cachedCatalog
             /\ reads' = reads

\* the map cached by a successful load stays the cached map
CacheKeptAfterLoad == cachedCatalog.loaded => cachedCatalog' = cachedCatalog

\* C39: a failed load leaves the cache unset and the next call reads again;
\* after a successful load every later call returns the same cached map and
\* reads nothing
C39_FailureRetriedSuccessCached ==
    [][FailedLoadIsRetried /\ CacheHitReadsNothing /\ CacheKeptAfterLoad]_vars

\* the place of a stage in intake, research, compute, draft, review, export, completed
StageIndex(stage) ==
    CASE stage = "intake" -> 1
      [] stage = "research" -> 2
      [] stage = "compute" -> 3
      [] stage = "draft" -> 4
      [] stage = "review" -> 5
      [] stage = "export" -> 6
      [] stage = "completed" -> 7

\* C35: every step of a thread of the concept-note graph leaves conceptNoteStage
\* as it was or moves it to the immediate successor, also when the thread is
\* entered again after a pause
C35_StageNeverGoesBack ==
    [][ StageIndex(conceptNoteStage')
          \in {StageIndex(conceptNoteStage), StageIndex(conceptNoteStage) + 1} ]_vars

====
